---------------------------- MODULE Spec2Model ----------------------------
(***************************************************************************)
(* Model of src/rcv/ublox.c (RTKLIB u-blox receiver decoder).              *)
(*                                                                         *)
(* The receiver control struct raw_t is the record variable raw.  Every    *)
(* C function that is modelled is an operator of the same name that maps   *)
(* the struct (and its arguments) to the struct after the call and the     *)
(* returned status.  A frame is a sequence of bytes 0..255; buffer index i *)
(* of the C code is element i+1 of the sequence.                           *)
(***************************************************************************)
EXTENDS Integers, Sequences, FiniteSets, TLC

VARIABLES
    raw,     \* raw_t: the receiver control struct
    ret,     \* status returned by the last call of input_ubx
    info,    \* what the last call of input_ubx did (dispatch, decoder, store index)
    hist,    \* history: one record per byte-wise call of input_ubx
    tx,      \* sender: the bytes of the frame being sent that are still to come
    gmsg,    \* gen_ubx: the command text (sequence of words) of the last call
    gbuff,   \* gen_ubx: output buffer of the last call
    gn,      \* gen_ubx: value returned by the last call
    gpos,    \* number of calls of input_ubx made before the generated frame
    gidle,   \* input_ubx had nbyte = 0 when the generated frame was queued
    sent     \* history: the frames delivered whole, as their field values

vars == <<raw, ret, info, hist, tx, gmsg, gbuff, gn, gpos, gidle, sent>>

-----------------------------------------------------------------------------
(* Program constants *)

UBXSYNC1 == 181     \* 0xB5
UBXSYNC2 == 98      \* 0x62
UBXCFG   == 6

ID_NAVSOL   == 262    \* 0x0106
ID_NAVTIME  == 288    \* 0x0120
ID_RXMRAW   == 528    \* 0x0210
ID_RXMSFRB  == 529    \* 0x0211
ID_RXMSFRBX == 531    \* 0x0213
ID_RXMRAWX  == 533    \* 0x0215
ID_TRKD5    == 778    \* 0x030A
ID_TRKMEAS  == 784    \* 0x0310
ID_TRKSFRBX == 783    \* 0x030F
ID_TIMTM2   == 3331   \* 0x0D03

SupportedIds == {ID_NAVSOL, ID_NAVTIME, ID_RXMRAW, ID_RXMSFRB, ID_RXMSFRBX,
                 ID_RXMRAWX, ID_TRKD5, ID_TRKMEAS, ID_TRKSFRBX, ID_TIMTM2}

MAX_CPSTD_VALID == 5
CPSTD_SLIP      == 15

\* rtklib.h (not part of src/): size of raw_t.buff
MAXRAWLEN == 4096
\* rtklib.h: loss-of-lock indicator bits
LLI_SLIP  == 1
LLI_HALFC == 2
\* rtklib.h: number of observation slots of a row (NFREQ+NEXOBS)
NFREQ  == 3
NEXOBS == 0

-----------------------------------------------------------------------------
(* Field codec *)

Pow2(k) == 2 ^ k
Bit(x, k) == (x \div Pow2(k)) % 2
\* x & m for a mask m that is a contiguous run of nb bits starting at bit lo
Bits(x, lo, nb) == (x \div Pow2(lo)) % Pow2(nb)

\* byte at C index i; raw_t.buff is zeroed by init_raw, so a byte never
\* written reads as 0
ByteAt(b, i) == IF i + 1 <= Len(b) THEN b[i + 1] ELSE 0

Zeros(n) == [k \in 1..n |-> 0]

\* b[i] = v in C
SetByte(b, i, v) ==
    IF i + 1 <= Len(b) THEN [b EXCEPT ![i + 1] = v]
    ELSE b \o Zeros(i - Len(b)) \o <<v>>

U1(b, i) == ByteAt(b, i)
I1(b, i) == IF ByteAt(b, i) >= 128 THEN ByteAt(b, i) - 256 ELSE ByteAt(b, i)
U2(b, i) == ByteAt(b, i) + 256 * ByteAt(b, i + 1)
\* 32-bit fields are kept as their four bytes in memory order (least
\* significant first).
\* U4 copies 4 bytes into an uninitialised unsigned long: where long has 64
\* bits the upper word und of the result is indeterminate
U4(b, i, und) == [lo |-> [k \in 1..4 |-> ByteAt(b, i + k - 1)], hi |-> und]
\* I4 returns int: the four bytes copied, two's complement
I4(b, i) == [k \in 1..4 |-> ByteAt(b, i + k - 1)]
\* R8/R4: the bit pattern of the IEEE-754 value, as the bytes in memory order
R8(b, i) == [k \in 1..8 |-> ByteAt(b, i + k - 1)]
R4(b, i) == [k \in 1..4 |-> ByteAt(b, i + k - 1)]

\* the Fletcher sums (cka, ckb) over buff[2 .. len-3]
\* cka=ckb=0; for (i=lo;i<hi;i++) {cka+=buff[i]; ckb+=cka;} on unsigned char
\* sums.  The range is halved to keep the evaluation shallow: running the
\* loop over lo..mid-1 and then over mid..hi-1 adds the first half's cka
\* once to ckb for each of the hi-mid later bytes.
RECURSIVE cksum_range(_, _, _)
cksum_range(b, lo, hi) ==
    IF hi <= lo THEN <<0, 0>>
    ELSE IF hi = lo + 1 THEN <<ByteAt(b, lo), ByteAt(b, lo)>>
    ELSE LET mid == lo + ((hi - lo) \div 2)
             x   == cksum_range(b, lo, mid)
             y   == cksum_range(b, mid, hi)
         IN  <<(x[1] + y[1]) % 256, (x[2] + (hi - mid) * x[1] + y[2]) % 256>>

\* the sums over buff[2..len-3]
cksum(b, len) == cksum_range(b, 2, len - 2)

checksum_nocheck(b, len) == TRUE

checksum(b, len) ==
    LET cs == cksum(b, len)
    IN  cs[1] = ByteAt(b, len - 2) /\ cs[2] = ByteAt(b, len - 1)

setcs_swapped(b, len) ==
    LET cs == cksum(b, len)
    IN  SetByte(SetByte(b, len - 2, cs[2]), len - 1, cs[1])

setcs(b, len) ==
    LET cs == cksum(b, len)
    IN  SetByte(SetByte(b, len - 2, cs[1]), len - 1, cs[2])

-----------------------------------------------------------------------------
(* Receiver state *)

\* gpst2time(week, sec): the epoch is kept as the pair it is built from.
\* sec is a record whose field form tells how the seconds were given:
\*   "itow" - itow*1E-3+ftow*1E-9, itow and ftow the bytes of two ints
\*   "ms"   - tow*0.001, tow the unsigned long read by U4
\*   "r8"   - a double, as its bytes
\*   "trk"  - ms, a whole number of milliseconds
GTime(week, sec) == [week |-> week, sec |-> sec]
\* gtime_t {0}: no epoch yet (time.time = 0); week -1 marks it
Time0 == [week |-> -1, sec |-> [form |-> "none"]]

NSLOT == NFREQ + NEXOBS
ZeroSlots == [k \in 1..NSLOT |-> 0]
\* bit patterns of the doubles and floats the decoder compares with
Zero8     == <<0, 0, 0, 0, 0, 0, 0, 0>>
NegZero8  == <<0, 0, 0, 0, 0, 0, 0, 128>>
MinusHalf == <<0, 0, 0, 0, 0, 0, 224, 191>>
Zero4     == <<0, 0, 0, 0>>
IsZero(x) == x = Zero8 \/ x = NegZero8

\* an obsd_t never written
ZeroRow == [time |-> Time0, sat |-> 0, rcv |-> 0,
            L |-> [k \in 1..NSLOT |-> Zero8], P |-> [k \in 1..NSLOT |-> Zero8],
            D |-> [k \in 1..NSLOT |-> Zero4],
            SNR |-> ZeroSlots, LLI |-> ZeroSlots,
            code |-> [k \in 1..NSLOT |-> "NONE"],
            qualL |-> ZeroSlots, qualP |-> ZeroSlots,
            eventime |-> Time0, timevalid |-> 0]

\* obs.data[j]; rows never written are zero
RowAt(data, j) == IF j + 1 <= Len(data) THEN data[j + 1] ELSE ZeroRow
SetRow(data, j, row) ==
    IF j + 1 <= Len(data) THEN [data EXCEPT ![j + 1] = row]
    ELSE data \o [k \in 1..(j - Len(data)) |-> ZeroRow] \o <<row>>

\* lockt, lockflag, halfc: arrays [MAXSAT][NFREQ+NEXOBS] zeroed by init_raw,
\* kept as the map of their non-zero entries
At(m, sat, f) == IF <<sat, f>> \in DOMAIN m THEN m[<<sat, f>>] ELSE 0
Put(m, sat, f, v) ==
    IF v = 0 THEN [k \in (DOMAIN m) \ {<<sat, f>>} |-> m[k]]
    ELSE [k \in (DOMAIN m) \cup {<<sat, f>>} |->
             IF k = <<sat, f>> THEN v ELSE m[k]]
EmptyMap == [k \in {} |-> 0]

\* raw->opt, as the options the decoders scan it for: has_x tells whether
\* "-X=" occurs in the string, x is the number that follows it.  tadj is
\* the number after "-TADJ=" in milliseconds; it is read by decode_rxmrawx
\* only, the frames of RXM-RAW are decoded without it.
Opt0 == [has_tadj |-> FALSE, tadj |-> 0,
         has_max_std_cp |-> FALSE, max_std_cp |-> 0,
         has_std_slip |-> FALSE, std_slip |-> 0,
         invcp |-> FALSE, ephall |-> FALSE, galfnav |-> FALSE,
         has_trkm_adj |-> FALSE, trkm_adj |-> 0]

\* eph_t as the fields the decoders compare; init_raw fills nav.eph with
\* {0,-1,-1}: sat 0, iode -1, iodc -1
Eph0 == [sat |-> 0, iode |-> -1, iodc |-> -1, week |-> 0, toes |-> 0, toc |-> 0]
\* geph_t likewise: sat 0, iode -1
Geph0 == [sat |-> 0, iode |-> -1, frq |-> 0, tof |-> Time0]

\* nav_t: eph[sat-1] and geph[prn-1] as the maps of the entries stored so far,
\* alm the subframe 4/5 pages handed to decode_frame, keyed <<system, id>>
Nav0 == [eph |-> <<>>, geph |-> <<>>, alm |-> <<>>]

\* sbsmsg_t, zeroed
SbsMsg0 == [prn |-> 0, week |-> 0, tow |-> 0, msg |-> <<>>]

\* the struct after init_raw
RawInit(outtype, opt) ==
    [buff |-> <<>>, nbyte |-> 0, len |-> 0,
     time |-> Time0,
     obs |-> [n |-> 0, data |-> <<>>, flag |-> 0, rcvcount |-> 0, tmcount |-> 0],
     lockt |-> EmptyMap, lockflag |-> EmptyMap, halfc |-> EmptyMap,
     subfrm |-> EmptyMap, nav |-> Nav0, sbsmsg |-> SbsMsg0, ephsat |-> 0,
     outtype |-> outtype, msgtype |-> <<>>, opt |-> opt]

\* what the rest of the receiver state is, apart from the frame accumulator
Decoded(r) == [time |-> r.time, obs |-> r.obs, lockt |-> r.lockt,
               lockflag |-> r.lockflag, halfc |-> r.halfc,
               subfrm |-> r.subfrm, nav |-> r.nav, sbsmsg |-> r.sbsmsg,
               ephsat |-> r.ephsat, msgtype |-> r.msgtype,
               outtype |-> r.outtype, opt |-> r.opt]

\* result of a decoder: the struct after the call and the returned status
Res(r, status) == [raw |-> r, ret |-> status]

\* the annotation written whether or not outtype is set
SetMsgtype_always(r, text) == [r EXCEPT !.msgtype = text]

\* if (raw->outtype) sprintf(raw->msgtype,...)
SetMsgtype(r, text) == IF r.outtype THEN [r EXCEPT !.msgtype = text] ELSE r

-----------------------------------------------------------------------------
(* Auxiliary decoders *)

decode_navsol(r) ==
    LET b    == r.buff
        p    == 6
        r1   == SetMsgtype(r, <<"UBX NAV-SOL", r.len>>)
        itow == I4(b, p)         \* int itow=U4(p)
        ftow == I4(b, p + 4)
        week == U2(b, p + 8)
    IN  IF Bits(U1(b, p + 11), 2, 2) = 3
        THEN Res([r1 EXCEPT !.time = GTime(week, [form |-> "itow", itow |-> itow, ftow |-> ftow])], 0)
        ELSE Res(r1, 0)

decode_navtime(r) ==
    LET b    == r.buff
        p    == 6
        r1   == SetMsgtype(r, <<"UBX NAV-TIME", r.len>>)
        itow == I4(b, p)
        ftow == I4(b, p + 4)
        week == U2(b, p + 8)
    IN  IF Bits(U1(b, p + 11), 0, 2) = 3
        THEN Res([r1 EXCEPT !.time = GTime(week, [form |-> "itow", itow |-> itow, ftow |-> ftow])], 0)
        ELSE Res(r1, 0)

\* the rising edge taken for the falling one
falling_edge_rising(flags) == Bit(flags, 7)
\* newFallingEdge = ((flags >> 2) & 0x01) (line 1205)
falling_edge(flags) == Bit(flags, 2)

decode_timtm2(r, und) ==
    LET b     == r.buff
        p     == 6
        r1    == SetMsgtype(r, <<"UBX TIM-TM2", r.len>>)
        flags == U1(b, p + 1)
        count == U2(b, p + 2)
        wnF   == U2(b, p + 6)
        towMsF    == U4(b, p + 16, und)
        towSubMsF == U4(b, p + 20, und)
        newFallingEdge == falling_edge(flags)
        time  == Bit(flags, 6)
        row0  == RowAt(r.obs.data, 0)
    IN  IF newFallingEdge = 1
        THEN Res([r1 EXCEPT
                    !.obs.flag = 5,
                    !.obs.data = SetRow(r.obs.data, 0,
                        [row0 EXCEPT !.eventime = GTime(wnF, [form |-> "itow", itow |-> towMsF, ftow |-> towSubMsF]),
                                     !.timevalid = time]),
                    !.obs.rcvcount = count,
                    !.obs.tmcount = r.obs.tmcount + 1], 0)
        ELSE Res([r1 EXCEPT !.obs.flag = 0], 0)

-----------------------------------------------------------------------------
(* Signal classifier *)

ubx_sys(gnssid) ==
    CASE gnssid = 0 -> "GPS"
      [] gnssid = 1 -> "SBS"
      [] gnssid = 2 -> "GAL"
      [] gnssid = 3 -> "CMP"
      [] gnssid = 5 -> "QZS"
      [] gnssid = 6 -> "GLO"
      [] OTHER -> "NONE"

ubx_sig(sys, sigid) ==
    CASE sys = "GPS" -> (CASE sigid = 0 -> "L1C" [] sigid = 3 -> "L2L"
                           [] sigid = 4 -> "L2S" [] OTHER -> "NONE")
      [] sys = "GLO" -> (CASE sigid = 0 -> "L1C" [] sigid = 2 -> "L2C"
                           [] OTHER -> "NONE")
      [] sys = "GAL" -> (CASE sigid = 0 -> "L1C" [] sigid = 1 -> "L1B"
                           [] sigid = 5 -> "L7I" [] sigid = 6 -> "L7Q"
                           [] OTHER -> "NONE")
      [] sys = "QZS" -> (CASE sigid = 0 -> "L1C" [] sigid = 5 -> "L2L"
                           [] OTHER -> "NONE")
      [] sys = "CMP" -> (CASE sigid \in {0, 1} -> "L2I" [] sigid \in {2, 3} -> "L7I"
                           [] OTHER -> "NONE")
      [] sys = "SBS" -> "L1C"
      [] OTHER -> "NONE"

\* every signal in a slot of its own
sig_idx_split(sys, code) ==
    CASE sys = "GPS" -> (CASE code = "L1C" -> 1 [] code = "L2L" -> 2
                           [] code = "L2S" -> 3 [] OTHER -> 0)
      [] sys = "GAL" -> (CASE code = "L1C" -> 1 [] code = "L7I" -> 2
                           [] code = "L1B" -> 3 [] OTHER -> 0)
      [] OTHER -> 0

sig_idx(sys, code) ==
    CASE sys = "GPS" -> (CASE code = "L1C" -> 1 [] code \in {"L2L", "L2S"} -> 2
                           [] OTHER -> 0)
      [] sys = "GLO" -> (CASE code = "L1C" -> 1 [] code = "L2C" -> 2 [] OTHER -> 0)
      [] sys = "GAL" -> (CASE code \in {"L1C", "L1B"} -> 1
                           [] code \in {"L7I", "L7Q"} -> 2 [] OTHER -> 0)
      [] sys = "QZS" -> (CASE code = "L1C" -> 1 [] code = "L2L" -> 2 [] OTHER -> 0)
      [] sys = "CMP" -> (CASE code \in {"L1I", "L2I"} -> 1 [] code = "L7I" -> 2
                           [] OTHER -> 0)
      [] sys = "SBS" -> (CASE code = "L1C" -> 1 [] OTHER -> 0)
      [] OTHER -> 0

\* rtklib.h / rtkcmn.c (not part of src/): satellite numbering
MINPRNQZS == 193
MAXOBS    == 64
satno(sys, prn) ==
    CASE sys = "GPS" /\ prn \in 1..32    -> prn
      [] sys = "GLO" /\ prn \in 1..27    -> 32 + prn
      [] sys = "GAL" /\ prn \in 1..30    -> 59 + prn
      [] sys = "QZS" /\ prn \in 193..199 -> 89 + prn - 192
      [] sys = "CMP" /\ prn \in 1..63    -> 96 + prn
      [] sys = "SBS" /\ prn \in 120..142 -> 159 + prn - 119
      [] OTHER -> 0

-----------------------------------------------------------------------------
(* Epoch arithmetic: gpst2time, time2gpst, timeadd of rtkcmn.c (not part of
   src/) *)

MsPerWeek == 604800000

\* the int whose four bytes, least significant first, are b
Int4(b) ==
    b[1] + 256 * b[2] + 65536 * b[3]
      + 16777216 * (IF b[4] >= 128 THEN b[4] - 256 ELSE b[4])

\* milliseconds of the doubles (seconds) the senders of this model put into
\* a frame
Tow8ms ==
    (Zero8 :> 0) @@ (<<0, 0, 0, 0, 0, 0, 89, 64>> :> 100000)
      @@ (<<82, 184, 30, 133, 235, 1, 89, 64>> :> 100030)
      @@ (<<20, 174, 71, 225, 122, 4, 89, 64>> :> 100070)

\* an epoch as weeks w, milliseconds 0 <= ms < MsPerWeek and nanoseconds
\* 0 <= ns < 1000000 since the start of GPS time
Norm(week, ms, ns) ==
    LET ms1 == ms + (ns \div 1000000)
    IN  [w |-> week + (ms1 \div MsPerWeek), ms |-> ms1 % MsPerWeek,
         ns |-> ns % 1000000]

\* an unsigned long of milliseconds: bytes lo and the upper word hi (2^32 ms
\* are 7 weeks and 61367296 ms); a set top bit of lo is 2^32 more than the
\* int of the same bytes
Epoch(t) ==
    CASE t.sec.form = "itow" -> Norm(t.week, Int4(t.sec.itow), Int4(t.sec.ftow))
      [] t.sec.form = "ms"   ->
           LET u == (IF t.sec.tow.lo[4] >= 128 THEN 1 ELSE 0) + t.sec.tow.hi
               v == Norm(t.week + 7 * u, Int4(t.sec.tow.lo), 0)
           IN  Norm(v.w, v.ms + 61367296 * u, 0)
      [] t.sec.form = "r8"   -> Norm(t.week, Tow8ms[t.sec.bits], 0)
      [] t.sec.form = "trk"  -> Norm(t.week, t.sec.ms, 0)
      [] t.sec.form = "tadj" -> Norm(t.week, t.sec.ms, 0)

IsUnset(t) == t.sec.form = "none"

\* tn=time2gpst(time,&week)/tadj; toff=(tn-floor(tn+0.5))*tadj (lines
\* 382-383), for a time of week and a tadj of whole milliseconds
tadj_toff(tow, tadj) == tow - tadj * ((2 * tow + tadj) \div (2 * tadj))
\* timeadd(time,sec) of rtkcmn.c (not part of src/), sec in milliseconds
timeadd_ms(time, ms) ==
    LET e == Norm(Epoch(time).w, Epoch(time).ms + ms, 0)
    IN  GTime(e.w, [form |-> "tadj", ms |-> e.ms])

-----------------------------------------------------------------------------
(* Observation decoder: RXM-RAWX *)

Min(a, b) == IF a <= b THEN a ELSE b

\* index j of the row of sat among obs.data[0..n-1], n when there is none
RECURSIVE FindRow(_, _, _, _)
FindRow(data, sat, j, n) ==
    IF j >= n THEN n
    ELSE IF RowAt(data, j).sat = sat THEN j
    ELSE FindRow(data, sat, j + 1, n)

\* the value slip takes when the stored half-cycle bit differs
halfc_slip(halfc, stored) == halfc # stored

\* the LLI bit 1 test of line 446, made after raw->halfc has been overwritten
halfc_lli(halfc, storedAfter) == IF halfc # storedAfter THEN 1 ELSE 0

\* line 440: the std-dev of the carrier phase reaches the slip threshold
cpstd_slips_gt(cpstd, thr) == cpstd > thr

cpstd_slips(cpstd, thr) == cpstd >= thr

\* line 352: the frame is shorter than its numMeas blocks need
rawx_short_one(len, nmeas) == len < 24 + 32

rawx_short(len, nmeas) == len < 24 + 32 * nmeas

\* lines 285 and 356: the week-zero test
week_zero_never(week) == FALSE

week_zero(week) == week = 0

lockt_slip_le(lockt, stored) == lockt = 0 \/ lockt <= stored

lockt_slip(lockt, stored) == lockt = 0 \/ lockt < stored

\* the tests without the one on the satellite number
rawx_skip_sys(sys, sat, f) == sys = "NONE" \/ f = 0 \/ f > NSLOT

\* the three tests of decode_rxmrawx that end a pass of the loop with
\* continue: no system, no satellite number, no slot
rawx_skip(sys, sat, f) == sys = "NONE" \/ sat = 0 \/ f = 0 \/ f > NSLOT

\* one pass of the measurement loop (i-th block at p); st = [raw, n]
\* sig_freq(sys,f,fcn) (lines 230-243), in units of 500 Hz; the carrier
\* frequencies are those of rtklib.h (not part of src/)
sig_freq(sys, f, fcn) ==
    CASE sys = "GLO" -> (IF f = 1 THEN 3204000 + 1125 * fcn ELSE 2492000 + 875 * fcn)
      [] sys = "CMP" -> (IF f = 1 THEN 3122196 ELSE 2414280)
      [] OTHER       -> (IF f = 1 THEN 3150840 ELSE 2455200)

\* the row taken over with the slots it had
new_row_kept(old, time, sat) == [old EXCEPT !.time = time, !.sat = sat, !.rcv = 0]
\* a row appended for a satellite not yet in the epoch (lines 452-461):
\* time, sat and rcv set, every slot zeroed
new_row(old, time, sat) ==
    [old EXCEPT !.time = time, !.sat = sat, !.rcv = 0,
                !.L = [k \in 1..NSLOT |-> Zero8],
                !.P = [k \in 1..NSLOT |-> Zero8],
                !.qualL = ZeroSlots, !.qualP = ZeroSlots,
                !.D = [k \in 1..NSLOT |-> Zero4],
                !.SNR = ZeroSlots, !.LLI = ZeroSlots,
                !.code = [k \in 1..NSLOT |-> "NONE"]]

\* the latch never cleared
latch_clears_never(L) == FALSE
\* if (L!=0.0) raw->lockflag[sat-1][f-1]=0 (line 475)
latch_clears(L) == ~IsZero(L)

\* P-=toff*CLIGHT and L-=toff*freq: a range or phase offset by the time-tag
\* adjustment is kept as what it is computed from, the bytes of the value
\* read followed by toff in ms (and the frequency)
OffsetP(P, toff) == P \o <<toff>>
OffsetL(L, toff, freq) == L \o <<toff, freq>>

rawx_block(st, p, c) ==
    LET r     == st.raw
        n     == st.n
        b     == r.buff
        P0    == R8(b, p)
        L0    == R8(b, p + 8)
        D     == R4(b, p + 16)
        gnss  == U1(b, p + 20)
        svid  == U1(b, p + 21)
        sigid == U1(b, p + 22)
        frqid == U1(b, p + 23)
        lockt == U2(b, p + 24)
        cn0   == U1(b, p + 26)
        prstd0 == Bits(U1(b, p + 27), 0, 4)
        cpstd == Bits(U1(b, p + 28), 0, 4)
        prstd == Pow2(IF prstd0 >= 5 THEN prstd0 - 5 ELSE 0)
        tstat == U1(b, p + 30)
        P1    == IF Bit(tstat, 0) = 0 THEN Zero8 ELSE P0
        L1    == IF Bit(tstat, 1) = 0 \/ L0 = MinusHalf \/ cpstd > c.cpstd_valid
                 THEN Zero8 ELSE L0
        sys   == ubx_sys(gnss)
        prn   == svid + (IF sys = "QZS" THEN MINPRNQZS - 1 ELSE 0)
        sat   == satno(sys, prn)
        code  == IF c.ver >= 1 THEN ubx_sig(sys, sigid)
                 ELSE IF sys = "CMP" THEN "L2I"
                 ELSE IF sys = "GAL" THEN "L1X" ELSE "L1C"
        f     == sig_idx(sys, code)
        offset == c.toff # 0 /\ ~IsZero(L1)
        P     == IF offset THEN OffsetP(P1, c.toff) ELSE P1
        L     == IF offset THEN OffsetL(L1, c.toff, sig_freq(sys, f, frqid - 7)) ELSE L1
        halfv == IF sys = "SBS" THEN (IF lockt > 8000 THEN 1 ELSE 0)
                 ELSE Bit(tstat, 2)
        halfc == Bit(tstat, 3)
        slip0 == IF lockt_slip(lockt, At(r.lockt, sat, f))
                    \/ halfc_slip(halfc, At(r.halfc, sat, f)) THEN 1 ELSE 0
        slip  == IF cpstd_slips(cpstd, c.cpstd_slip) THEN LLI_SLIP ELSE slip0
        lockflag1 == IF slip # 0 THEN Put(r.lockflag, sat, f, slip) ELSE r.lockflag
        lockt1 == Put(r.lockt, sat, f, lockt)
        halfc1 == Put(r.halfc, sat, f, halfc)
        LLIa  == IF halfv = 0 /\ ~IsZero(L) THEN LLI_HALFC ELSE 0
        LLIb  == halfc_lli(halfc, At(halfc1, sat, f))
        LLIc  == IF ~IsZero(L) /\ At(lockflag1, sat, f) > 0 THEN LLI_SLIP ELSE 0
        \* the three contributions are distinct bits or equal bits: bitwise or
        LLI   == LLIa + (IF LLIb = 1 \/ LLIc = 1 THEN 1 ELSE 0)
        j     == FindRow(r.obs.data, sat, 0, n)
        old   == RowAt(r.obs.data, j)
        fresh == new_row(old, c.time, sat)
        base  == IF j >= n THEN fresh ELSE old
        row   == [base EXCEPT !.L[f] = L, !.P[f] = P,
                              !.qualL[f] = Min(cpstd, 9), !.qualP[f] = Min(prstd, 9),
                              !.D[f] = D, !.SNR[f] = (cn0 * 4) % 256,
                              !.LLI[f] = LLI, !.code[f] = code]
        lockflag2 == IF latch_clears(L) THEN Put(lockflag1, sat, f, 0) ELSE lockflag1
    IN  IF rawx_skip(sys, sat, f)
        THEN st
        ELSE [raw |-> [r EXCEPT !.lockflag = lockflag2, !.lockt = lockt1,
                                !.halfc = halfc1,
                                !.obs.data = SetRow(r.obs.data, j, row)],
              n |-> IF j >= n THEN n + 1 ELSE n]

\* for (i=0,p=raw->buff+6+16;i<nmeas&&n<MAXOBS;i++,p+=32): the passes
\* lo..hi-1, in order; n never decreases, so a pass found with n at MAXOBS
\* is past the end of the loop.  The range is halved, and the outcome of the
\* first half bound before the second starts, only to keep the evaluation
\* shallow
RECURSIVE rawx_range(_, _, _, _)
rawx_range(st, lo, hi, c) ==
    IF hi <= lo THEN st
    ELSE IF hi = lo + 1
    THEN (IF st.n < MAXOBS THEN rawx_block(st, 6 + 16 + 32 * lo, c) ELSE st)
    ELSE LET mid == lo + ((hi - lo) \div 2)
         IN  CHOOSE last \in {rawx_range(first, mid, hi, c) :
                                 first \in {rawx_range(st, lo, mid, c)}} : TRUE

rawx_loop(st, i, c) == rawx_range(st, i, c.nmeas, c)

decode_rxmrawx(r) ==
    LET b     == r.buff
        p     == 6
        tow   == R8(b, p)
        week  == U2(b, p + 8)
        nmeas == U1(b, p + 11)
        ver   == U1(b, p + 13)
        time0 == GTime(week, [form |-> "r8", bits |-> tow])
        r1    == SetMsgtype(r, <<"UBX RXM-RAWX", r.len, time0, nmeas, ver>>)
        tadj  == IF r.opt.has_tadj THEN r.opt.tadj ELSE 0
        toff  == IF tadj > 0 THEN tadj_toff(Epoch(time0).ms, tadj) ELSE 0
        time  == IF tadj > 0 THEN timeadd_ms(time0, 0 - toff) ELSE time0
        c     == [nmeas |-> nmeas, ver |-> ver, time |-> time, toff |-> toff,
                  cpstd_valid  |-> IF r.opt.has_max_std_cp THEN r.opt.max_std_cp
                                   ELSE MAX_CPSTD_VALID,
                  cpstd_slip   |-> IF r.opt.has_std_slip THEN r.opt.std_slip
                                   ELSE CPSTD_SLIP]
        st    == rawx_loop([raw |-> r1, n |-> 0], 0, c)
    IN  IF r.len < 24 THEN Res(r, -1)
        ELSE IF rawx_short(r.len, nmeas) THEN Res(r, -1)
        ELSE IF week_zero(week) THEN Res(r, 0)
        ELSE Res([st.raw EXCEPT !.time = time, !.obs.n = st.n], 1)

-----------------------------------------------------------------------------
(* Epoch arithmetic, continued: timediff of rtkcmn.c (not part of src/) *)

\* timediff(a,b) in milliseconds, the nanoseconds apart in ns; an epoch more
\* than a week away counts as one week and a day away
FarMs == 691200000
timediff(a, b) ==
    IF IsUnset(b) THEN [ms |-> FarMs, ns |-> 0]
    ELSE LET x  == Epoch(a)
             y  == Epoch(b)
             dw == x.w - y.w
         IN  IF dw > 1 THEN [ms |-> FarMs, ns |-> 0]
             ELSE IF dw < -1 THEN [ms |-> 0 - FarMs, ns |-> 0]
             ELSE [ms |-> dw * MsPerWeek + x.ms - y.ms, ns |-> x.ns - y.ns]

-----------------------------------------------------------------------------
(* Observation decoder: RXM-RAW *)

\* rtklib.h (not part of src/)
MINPRNSBS == 120

\* (unsigned char)x for a double of whole value v: outside 0..255 the
\* conversion is undefined; builds wrap (und = 0) or saturate
UChar(v, und) ==
    IF v \in 0..255 THEN v
    ELSE IF und = 0 THEN v % 256
    ELSE IF v < 0 THEN 0 ELSE 255

\* -x of a double
Neg8(x) == [x EXCEPT ![8] = (x[8] + 128) % 256]

\* tt<1.0||10.0<tt
tt_outside(tt) ==
    \/ tt.ms < 1000 \/ (tt.ms = 1000 /\ tt.ns < 0)
    \/ tt.ms > 10000 \/ (tt.ms = 10000 /\ tt.ns > 0)

\* one pass of the satellite loop, i-th block; st = [raw, n]
rxmraw_block(st, i, c) ==
    LET r    == st.raw
        n    == st.n
        b    == r.buff
        p    == 6 + 8 + 24 * i
        L0   == R8(b, p)
        prn  == U1(b, p + 20)
        LLI  == U1(b, p + 23)
        old  == RowAt(r.obs.data, n)
        row1 == [old EXCEPT !.time = c.time,
                            !.L[1] = IF r.opt.invcp THEN Neg8(L0) ELSE L0,
                            !.P[1] = R8(b, p + 8),
                            !.D[1] = R4(b, p + 16),
                            !.SNR[1] = UChar(I1(b, p + 22) * 4, c.und),
                            !.LLI[1] = LLI,
                            !.code[1] = "L1C"]
        sat  == satno(IF MINPRNSBS <= prn THEN "SBS" ELSE "GPS", prn)
        lockt1 == IF LLI % 2 = 1 THEN 0
                  ELSE IF tt_outside(c.tt) THEN 0
                  ELSE At(r.lockt, sat, 1) + c.tt.ms
        row2 == [row1 EXCEPT !.sat = sat,
                    !.L = [k \in 1..NSLOT |-> IF k = 1 THEN row1.L[1] ELSE Zero8],
                    !.P = [k \in 1..NSLOT |-> IF k = 1 THEN row1.P[1] ELSE Zero8],
                    !.D = [k \in 1..NSLOT |-> IF k = 1 THEN row1.D[1] ELSE Zero4],
                    !.SNR = [k \in 1..NSLOT |-> IF k = 1 THEN row1.SNR[1] ELSE 0],
                    !.LLI = [k \in 1..NSLOT |-> IF k = 1 THEN row1.LLI[1] ELSE 0],
                    !.qualL = [k \in 1..NSLOT |-> IF k = 1 THEN row1.qualL[1] ELSE 0],
                    !.qualP = [k \in 1..NSLOT |-> IF k = 1 THEN row1.qualP[1] ELSE 0],
                    !.code = [k \in 1..NSLOT |-> IF k = 1 THEN row1.code[1] ELSE "NONE"]]
    IN  IF sat = 0
        THEN [raw |-> [r EXCEPT !.obs.data = SetRow(r.obs.data, n, row1)], n |-> n]
        ELSE [raw |-> [r EXCEPT !.obs.data = SetRow(r.obs.data, n, row2),
                                !.lockt = Put(r.lockt, sat, 1, lockt1)],
              n |-> n + 1]

\* the passes lo..hi-1 of the loop, in order; the range is halved, and the
\* outcome of the first half bound before the second starts, only to keep
\* the evaluation shallow
RECURSIVE rxmraw_loop(_, _, _, _)
rxmraw_loop(st, lo, hi, c) ==
    IF hi <= lo THEN st
    ELSE IF hi = lo + 1 THEN rxmraw_block(st, lo, c)
    ELSE LET mid == lo + ((hi - lo) \div 2)
         IN  CHOOSE last \in {rxmraw_loop(first, mid, hi, c) :
                                 first \in {rxmraw_loop(st, lo, mid, c)}} : TRUE

decode_rxmraw(r, und) ==
    LET b    == r.buff
        p    == 6
        nsat == U1(b, p + 6)
        r1   == SetMsgtype(r, <<"UBX RXM-RAW", r.len, nsat>>)
        tow  == U4(b, p, und)
        week == U2(b, p + 4)
        time == GTime(week, [form |-> "ms", tow |-> tow])
        c    == [time |-> time, tt |-> timediff(time, r.time), und |-> und]
        st   == rxmraw_loop([raw |-> r1, n |-> 0], 0, Min(nsat, MAXOBS), c)
    IN  IF r.len < 12 + 24 * nsat THEN Res(r1, -1)
        ELSE IF week_zero(week) THEN Res(r1, 0)
        ELSE Res([st.raw EXCEPT !.time = time, !.obs.n = st.n], 1)

-----------------------------------------------------------------------------
(* rtk_crc24q of rtkcmn.c (not part of src/): CRC-24Q, generator 0x1864CFB,
   register cleared at the start, message bits most significant first.  The
   register is the set of its bits that are 1. *)

PolyBits == {0, 1, 3, 4, 5, 6, 7, 10, 11, 14, 17, 18, 23}

\* the register after one more message bit
crc_bit(crc, bit) ==
    LET sh == {k + 1 : k \in crc \ {23}}
    IN  IF (23 \in crc) # (bit = 1)
        THEN (sh \ PolyBits) \cup (PolyBits \ sh)
        ELSE sh

\* the register after bits lo..hi-1 (from 1) of the sequence
RECURSIVE crc_range(_, _, _, _)
crc_range(crc, bits, lo, hi) ==
    IF hi <= lo THEN crc
    ELSE IF hi = lo + 1 THEN crc_bit(crc, bits[lo])
    ELSE LET mid == (lo + hi) \div 2
         IN  CHOOSE last \in {crc_range(first, bits, mid, hi) :
                                 first \in {crc_range(crc, bits, lo, mid)}} : TRUE

rtk_crc24q(bits) == crc_range({}, bits, 1, Len(bits) + 1)

\* a 24-bit value as the set of its bits that are 1
BitSet24(v) == {k \in 0..23 : Bit(v, k) = 1}

-----------------------------------------------------------------------------
(* Navigation state: subfrm[sat], nav.eph, nav.geph *)

\* getbitu of rtkcmn.c (not part of src/): len bits from bit pos of the byte
\* sequence b, most significant first
RECURSIVE getbitu(_, _, _)
getbitu(b, pos, len) ==
    IF len = 0 THEN 0
    ELSE 2 * getbitu(b, pos, len - 1)
           + Bit(ByteAt(b, (pos + len - 1) \div 8), 7 - ((pos + len - 1) % 8))

\* raw->subfrm[sat-1][off .. off+n-1]; subfrm is zeroed by init_raw and kept
\* as the map of its non-zero bytes, keyed <<sat, offset>>
SubBytes(m, sat, off, n) == [k \in 1..n |-> At(m, sat, off + k - 1)]

\* memcpy(raw->subfrm[sat-1]+off, bytes, Len(bytes))
PutBytes(m, sat, off, bytes) ==
    LET ks == {<<sat, off + k - 1>> : k \in 1..Len(bytes)}
        nz == {<<sat, off + k - 1>> : k \in {j \in 1..Len(bytes) : bytes[j] # 0}}
    IN  [key \in ((DOMAIN m) \ ks) \cup nz |->
            IF key \in nz THEN bytes[key[2] - off + 1] ELSE m[key]]

EphAt(nav, sat) == IF sat \in DOMAIN nav.eph THEN nav.eph[sat] ELSE Eph0
GephAt(nav, prn) == IF prn \in DOMAIN nav.geph THEN nav.geph[prn] ELSE Geph0
SetEph(nav, sat, eph) ==
    [nav EXCEPT !.eph = [s \in (DOMAIN nav.eph) \cup {sat} |->
                            IF s = sat THEN eph ELSE nav.eph[s]]]
SetGeph(nav, prn, geph) ==
    [nav EXCEPT !.geph = [s \in (DOMAIN nav.geph) \cup {prn} |->
                            IF s = prn THEN geph ELSE nav.geph[s]]]
SetAlm(nav, sys, id, page) ==
    [nav EXCEPT !.alm = [s \in (DOMAIN nav.alm) \cup {<<sys, id>>} |->
                            IF s = <<sys, id>> THEN page ELSE nav.alm[s]]]

\* satsys of rtkcmn.c (not part of src/): system and prn of a satellite number
satsys(sat) ==
    CASE sat \in 1..32    -> [sys |-> "GPS", prn |-> sat]
      [] sat \in 33..59   -> [sys |-> "GLO", prn |-> sat - 32]
      [] sat \in 60..89   -> [sys |-> "GAL", prn |-> sat - 59]
      [] sat \in 90..96   -> [sys |-> "QZS", prn |-> sat - 89 + 192]
      [] sat \in 97..159  -> [sys |-> "CMP", prn |-> sat - 96]
      [] sat \in 160..182 -> [sys |-> "SBS", prn |-> sat - 159 + 119]
      [] OTHER -> [sys |-> "NONE", prn |-> 0]

\* -EPHALL absent and the issue of data equals the stored one (lines 510-513)
eph_same_never(opt, eph, stored) == FALSE

eph_same(opt, eph, stored) ==
    ~opt.ephall /\ eph.iode = stored.iode /\ eph.iodc = stored.iodc

-----------------------------------------------------------------------------
(* GPS/QZSS LNAV: save_subfrm, decode_ephem, decode_alm1, decode_alm2,
   decode_rxmsfrb, decode_nav *)

\* decode_frame of rtkcmn.c (not part of src/) on one 30-byte subframe:
\* the subframe id of the HOW
frame_id(s) == getbitu(s, 43, 3)

\* decode_frame on subframes 1, 2 and 3: week, iodc and toc of subframe 1,
\* iode and toes of subframe 2; subframe 3 repeats iode, and decode_frame
\* returns 0 for it when iode differs from subframe 2 or from iodc&0xFF
frame_eph(s1, s2, s3) ==
    [sat |-> 0, iode |-> getbitu(s2, 48, 8),
     iodc |-> 256 * getbitu(s1, 70, 2) + getbitu(s1, 168, 8),
     week |-> getbitu(s1, 48, 10), toes |-> getbitu(s2, 216, 16),
     toc |-> getbitu(s1, 176, 16)]

frames_decode_any(s1, s2, s3) == frame_id(s3) = 3

frames_decode(s1, s2, s3) ==
    /\ frame_id(s1) = 1
    /\ frame_id(s2) = 2
    /\ frame_id(s3) = 3
    /\ getbitu(s3, 216, 8) = getbitu(s2, 48, 8)
    /\ getbitu(s3, 216, 8) = getbitu(s1, 168, 8)

decode_ephem(sat, r) ==
    LET s1  == SubBytes(r.subfrm, sat, 0, 30)
        s2  == SubBytes(r.subfrm, sat, 30, 30)
        s3  == SubBytes(r.subfrm, sat, 60, 30)
        eph == frame_eph(s1, s2, s3)
    IN  IF ~frames_decode(s1, s2, s3) THEN Res(r, 0)
        ELSE IF eph_same(r.opt, eph, EphAt(r.nav, sat)) THEN Res(r, 0)
        ELSE Res([r EXCEPT !.nav = SetEph(r.nav, sat, [eph EXCEPT !.sat = sat]),
                           !.ephsat = sat], 2)

\* almanac, ionosphere and UTC parameters of subframe 4, for GPS and QZSS
decode_alm1(sat, r) ==
    LET sys == satsys(sat).sys
    IN  IF sys \in {"GPS", "QZS"}
        THEN Res([r EXCEPT !.nav = SetAlm(r.nav, sys, 4,
                                          SubBytes(r.subfrm, sat, 90, 30))], 9)
        ELSE Res(r, 9)

decode_alm2(sat, r) ==
    LET sys == satsys(sat).sys
    IN  IF sys \in {"GPS", "QZS"}
        THEN Res([r EXCEPT !.nav = SetAlm(r.nav, sys, 5,
                                          SubBytes(r.subfrm, sat, 120, 30))], 0)
        ELSE Res(r, 0)

\* the dispatch on the subframe id shared by decode_rxmsfrb and decode_nav
lnav_dispatch(id, sat, r) ==
    IF id = 3 THEN decode_ephem(sat, r)
    ELSE IF id = 4 THEN decode_alm1(sat, r)
    ELSE IF id = 5 THEN decode_alm2(sat, r)
    ELSE Res(r, 0)

\* the 24 data bits of the ten dwords at buff[p..], most significant first:
\* bits 23..0 of each dword (shift 0) or bits 29..6 (shift 6)
RECURSIVE words24(_, _, _, _)
words24(b, p, i, shift) ==
    IF i = 10 THEN <<>>
    ELSE LET w == (ByteAt(b, p) + 256 * ByteAt(b, p + 1) + 65536 * ByteAt(b, p + 2)
                     + 16777216 * (ByteAt(b, p + 3) % 64)) \div Pow2(shift)
         IN  <<(w \div 65536) % 256, (w \div 256) % 256, w % 256>>
               \o words24(b, p + 4, i + 1, shift)

save_subfrm(sat, r) ==
    LET p  == 6
        id == Bits(ByteAt(r.buff, p + 6), 2, 3)
    IN  IF id < 1 \/ 5 < id THEN [raw |-> r, id |-> 0]
        ELSE [raw |-> [r EXCEPT !.subfrm = PutBytes(r.subfrm, sat, (id - 1) * 30,
                                                    words24(r.buff, p + 2, 0, 0))],
              id  |-> id]

\* sbsdecodemsg of sbas.c (not part of src/) as decode_rxmsfrb calls it:
\* nothing without an epoch; else week, tow, prn and the 226 message bits
\* are stored, and the message counts when its CRC equals the low 24 bits of
\* the last word
sbs_rxmsfrb(r, prn) ==
    LET p    == 6 + 2
        wbit(i, j) == Bit(ByteAt(r.buff, p + 4 * i + (j \div 8)), j % 8)
        msg  == [k \in 1..226 |-> wbit((k - 1) \div 32, 31 - ((k - 1) % 32))]
          \* bits 25 and 24 of word 7 follow the seven whole words
        msg2 == [k \in 1..226 |-> IF k <= 224 THEN msg[k] ELSE wbit(7, 25 - (k - 225))]
        f    == [k \in 1..232 |-> IF k <= 6 THEN 0 ELSE msg2[k - 6]]
        crc  == BitSet24(ByteAt(r.buff, p + 28) + 256 * ByteAt(r.buff, p + 29)
                           + 65536 * ByteAt(r.buff, p + 30))
        e    == Epoch(r.time)
    IN  IF IsUnset(r.time) THEN Res(r, 0)
        ELSE Res([r EXCEPT !.sbsmsg = [prn |-> prn, week |-> e.w,
                                       tow |-> e.ms \div 1000, msg |-> msg2]],
                 IF rtk_crc24q(f) = crc THEN 3 ELSE 0)

decode_rxmsfrb(r) ==
    LET p   == 6
        prn == U1(r.buff, p + 1)
        r1  == SetMsgtype(r, <<"UBX RXM-SFRB", r.len, prn>>)
        sat == satno(IF MINPRNSBS <= prn THEN "SBS" ELSE "GPS", prn)
        sys == satsys(sat).sys
        Dispatch(s) == lnav_dispatch(s.id, sat, s.raw)
    IN  IF r.len < 42 THEN Res(r1, -1)
        ELSE IF sat = 0 THEN Res(r1, -1)
        ELSE IF sys = "GPS" THEN Dispatch(save_subfrm(sat, r1))
        ELSE IF sys = "SBS" THEN sbs_rxmsfrb(r1, satsys(sat).prn)
        ELSE Res(r1, 0)

PREAMB_CNAV == 139

\* (U4(p)>>24)==PREAMB_CNAV on an unsigned long whose upper word is und
is_cnav(b, p, und) == ByteAt(b, p + 3) + 256 * und = PREAMB_CNAV

decode_nav(r, sat, off, und) ==
    LET p  == 6 + off
        id == Bits(ByteAt(r.buff, p + 5), 0, 3)
    IN  IF r.len < 48 + off THEN Res(r, -1)
        ELSE IF is_cnav(r.buff, p, und) THEN Res(r, 0)
        ELSE IF id < 1 \/ 5 < id THEN Res(r, -1)
        ELSE lnav_dispatch(id, sat,
                 [r EXCEPT !.subfrm = PutBytes(r.subfrm, sat, (id - 1) * 30,
                                               words24(r.buff, p, 0, 6))])

-----------------------------------------------------------------------------
(* Galileo I/NAV: decode_enav *)

\* decode_gal_inav of rtkcmn.c (not part of src/) on the words 0..5 kept at
\* subfrm[sat-1][type*16]: word types, the time field of word 0 and the
\* IODnav of words 1..4 must fit, the svid of word 4 must name a satellite
gal_inav_ok(s) ==
    /\ \A k \in 0..5 : getbitu(s, 128 * k, 6) = k
    /\ getbitu(s, 6, 2) = 2
    /\ \A k \in 2..4 : getbitu(s, 128 * k + 6, 10) = getbitu(s, 128 + 6, 10)
    /\ satno("GAL", getbitu(s, 128 * 4 + 16, 6)) # 0

gal_inav_eph(s) ==
    [sat |-> satno("GAL", getbitu(s, 128 * 4 + 16, 6)),
     iode |-> getbitu(s, 128 + 6, 10), iodc |-> getbitu(s, 128 + 6, 10),
     week |-> getbitu(s, 96, 12), toes |-> getbitu(s, 128 + 16, 14),
     toc |-> getbitu(s, 128 * 4 + 54, 14)]

\* no ephemeris taken as the stored one
gal_same_never(opt, eph, stored) == FALSE
\* -EPHALL absent and iode, toe and toc equal the stored ones (lines 971-975)
gal_same(opt, eph, stored) ==
    /\ ~opt.ephall
    /\ eph.iode = stored.iode
    /\ eph.week = stored.week /\ eph.toes = stored.toes
    /\ eph.toc = stored.toc

\* the 200 bits the CRC of a page pair runs over: 4 bits of padding, bits
\* 0..113 of the even half, bits 0..81 of the odd half (lines 936-938)
gal_crc_bits(buff) ==
    [k \in 1..200 |-> IF k <= 4 THEN 0
                      ELSE IF k <= 118 THEN getbitu(buff, k - 5, 1)
                      ELSE getbitu(buff, 128 + k - 119, 1)]

gal_crc_unchecked(buff) == TRUE

gal_crc_ok(buff) ==
    rtk_crc24q(gal_crc_bits(buff)) = BitSet24(getbitu(buff, 128 + 82, 24))

\* strstr(raw->opt,"-GALFNAV")
galfnav_ignored(opt) == FALSE

galfnav(opt) == opt.galfnav

\* the word flags never cleared
clear_flags_never(type) == FALSE
\* clear word 0-6 flags: if (type==2) raw->subfrm[sat-1][112]=0 (line 951)
clear_flags(type) == type = 2

decode_enav(r, sat, off) ==
    LET p     == 6 + off
        buff  == [k \in 1..32 |->
                     ByteAt(r.buff, p + 4 * ((k - 1) \div 4) + 3 - ((k - 1) % 4))]
        part1 == getbitu(buff, 0, 1)
        page1 == getbitu(buff, 1, 1)
        part2 == getbitu(buff, 128, 1)
        page2 == getbitu(buff, 129, 1)
        type  == getbitu(buff, 2, 6)
        sub0  == IF clear_flags(type) THEN Put(r.subfrm, sat, 112, 0) ELSE r.subfrm
        page  == [i \in 1..16 |-> IF i <= 14 THEN getbitu(buff, 2 + 8 * (i - 1), 8)
                                  ELSE getbitu(buff, 128 + 2 + 8 * (i - 15), 8)]
        sub1  == PutBytes(sub0, sat, type * 16, page)
        mask0 == At(sub1, sat, 112)
        mask  == IF Bit(mask0, type) = 1 THEN mask0 ELSE mask0 + Pow2(type)
        r1    == [r EXCEPT !.subfrm = Put(sub1, sat, 112, mask)]
        s     == SubBytes(r1.subfrm, sat, 0, 96)
        eph   == gal_inav_eph(s)
    IN  IF r.len < 44 + off THEN Res(r, -1)
        ELSE IF page1 = 1 \/ page2 = 1 THEN Res(r, 0)
        ELSE IF part1 # 0 \/ part2 # 1 THEN Res(r, -1)
        ELSE IF ~gal_crc_ok(buff) THEN Res(r, -1)
        ELSE IF type > 6 THEN Res(r, 0)
        ELSE IF mask # 127 THEN Res(r1, 0)
        ELSE IF galfnav(r.opt) THEN Res(r1, 0)
        ELSE IF ~gal_inav_ok(s) THEN Res(r1, 0)
        ELSE IF eph.sat # sat THEN Res(r1, -1)
        ELSE IF gal_same(r.opt, eph, EphAt(r.nav, sat)) THEN Res(r1, 0)
        ELSE Res([r1 EXCEPT !.nav = SetEph(r.nav, sat, eph), !.ephsat = sat], 2)

-----------------------------------------------------------------------------
(* BeiDou D1/D2: decode_cnav *)

\* bit n (from 0) of the ten 30-bit words at buff[p..], word by word, most
\* significant bit first: U4(p)&0x3FFFFFFF handed to setbitu(..,i*30,30,..)
word30_bit(b, p, n) ==
    LET j == 29 - (n % 30)
    IN  Bit(ByteAt(b, p + 4 * (n \div 30) + (j \div 8)), j % 8)

\* the 38 bytes of the slot after the ten setbitu calls: 300 bits written,
\* the low four bits of the last byte kept
words30(b, p, old) ==
    LET bits(k) == 128 * word30_bit(b, p, 8 * k) + 64 * word30_bit(b, p, 8 * k + 1)
                     + 32 * word30_bit(b, p, 8 * k + 2) + 16 * word30_bit(b, p, 8 * k + 3)
        low(k)  == 8 * word30_bit(b, p, 8 * k + 4) + 4 * word30_bit(b, p, 8 * k + 5)
                     + 2 * word30_bit(b, p, 8 * k + 6) + word30_bit(b, p, 8 * k + 7)
    IN  [i \in 1..38 |-> IF i <= 37 THEN bits(i - 1) + low(i - 1)
                         ELSE bits(37) + (old[38] % 16)]

\* decode_bds_d1 of rtkcmn.c (not part of src/): subframes 1..3 at 0, 38 and
\* 76 must carry the frame numbers 1, 2, 3; AODC, AODE, week and the high
\* bits of toe are taken from them
bds_d1_ok(s) == \A k \in 0..2 : getbitu(s, 304 * k + 15, 3) = k + 1
bds_d1_eph(s) ==
    [sat |-> 0, iode |-> getbitu(s, 287, 5), iodc |-> getbitu(s, 43, 5),
     week |-> getbitu(s, 60, 13), toes |-> getbitu(s, 304 + 291, 2),
     toc |-> getbitu(s, 73, 9)]

\* decode_bds_d2 of rtkcmn.c (not part of src/): pages 1 and 3..10 of
\* subframe 1 at (pgn-1)*38 must carry their page numbers
bds_d2_ok(s) == \A k \in {1} \cup (3..10) : getbitu(s, 304 * (k - 1) + 42, 4) = k
bds_d2_eph(s) ==
    [sat |-> 0, iode |-> getbitu(s, 304 + 47, 5), iodc |-> getbitu(s, 47, 5),
     week |-> getbitu(s, 64, 13), toes |-> getbitu(s, 304 * 2 + 46, 2),
     toc |-> getbitu(s, 77, 5)]

\* -EPHALL absent and toe, iode and iodc equal the stored ones (lines 1032-1036)
bds_same(opt, eph, stored) ==
    /\ ~opt.ephall
    /\ eph.week = stored.week /\ eph.toes = stored.toes
    /\ eph.iode = stored.iode /\ eph.iodc = stored.iodc

\* prn>5&&prn<59: IGSO/MEO satellite
bds_meo_all(prn) == TRUE

bds_meo(prn) == prn > 5 /\ prn < 59

decode_cnav(r, sat, off) ==
    LET p   == 6 + off
        prn == satsys(sat).prn
        id  == Bits(ByteAt(r.buff, p + 1), 4, 3)
        pgn == ((ByteAt(r.buff, p + 5) + 256 * ByteAt(r.buff, p + 6)) \div 64) % 16
        slot == IF bds_meo(prn) THEN (id - 1) * 38 ELSE (pgn - 1) * 38
        r1  == [r EXCEPT !.subfrm =
                   PutBytes(r.subfrm, sat, slot,
                            words30(r.buff, p, SubBytes(r.subfrm, sat, slot, 38)))]
        Store(eph) ==
            IF bds_same(r.opt, eph, EphAt(r.nav, sat)) THEN Res(r1, 0)
            ELSE Res([r1 EXCEPT !.nav = SetEph(r.nav, sat, [eph EXCEPT !.sat = sat]),
                                !.ephsat = sat], 2)
    IN  IF r.len < 48 + off THEN Res(r, -1)
        ELSE IF id < 1 \/ 5 < id THEN Res(r, -1)
        ELSE IF bds_meo(prn)
        THEN IF id # 3 THEN Res(r1, 0)
             ELSE IF ~bds_d1_ok(SubBytes(r1.subfrm, sat, 0, 114)) THEN Res(r1, 0)
             ELSE Store(bds_d1_eph(SubBytes(r1.subfrm, sat, 0, 114)))
        ELSE IF id # 1 THEN Res(r, 0)
        ELSE IF pgn < 1 \/ 10 < pgn THEN Res(r, -1)
        ELSE IF pgn # 10 THEN Res(r1, 0)
        ELSE IF ~bds_d2_ok(SubBytes(r1.subfrm, sat, 0, 380)) THEN Res(r1, 0)
        ELSE Store(bds_d2_eph(SubBytes(r1.subfrm, sat, 0, 380)))

-----------------------------------------------------------------------------
(* GLONASS: decode_gnav *)

\* test_glostr of rtkcmn.c (not part of src/): the Hamming code of the 85-bit
\* string in buff[0..10].  Row i of the table masks the bits check i covers.
mask_hamming ==
    << <<85, 85, 90, 170, 170, 170, 181, 85, 106, 216, 8>>,
       <<102, 102, 108, 204, 204, 204, 217, 153, 179, 104, 16>>,
       <<135, 135, 143, 15, 15, 15, 30, 30, 60, 112, 32>>,
       <<7, 248, 15, 240, 15, 240, 31, 224, 63, 128, 64>>,
       <<248, 0, 15, 255, 240, 0, 31, 255, 192, 0, 128>>,
       <<0, 0, 15, 255, 255, 255, 224, 0, 0, 1, 0>>,
       <<255, 255, 240, 0, 0, 0, 0, 0, 0, 2, 0>>,
       <<255, 255, 255, 255, 255, 255, 255, 255, 255, 255, 248>> >>

\* number of bits set in x & m, for bytes x and m
AndBits(x, m) ==
    Cardinality({k \in 0..7 : Bit(x, k) = 1 /\ Bit(m, k) = 1})

\* cs&1 of row i: the parity of the masked string
glo_cs(buff, i) ==
    (AndBits(buff[1], mask_hamming[i][1]) + AndBits(buff[2], mask_hamming[i][2])
       + AndBits(buff[3], mask_hamming[i][3]) + AndBits(buff[4], mask_hamming[i][4])
       + AndBits(buff[5], mask_hamming[i][5]) + AndBits(buff[6], mask_hamming[i][6])
       + AndBits(buff[7], mask_hamming[i][7]) + AndBits(buff[8], mask_hamming[i][8])
       + AndBits(buff[9], mask_hamming[i][9]) + AndBits(buff[10], mask_hamming[i][10])
       + AndBits(buff[11], mask_hamming[i][11])) % 2

test_glostr(buff) ==
    LET n == Cardinality({i \in 1..8 : glo_cs(buff, i) = 1})
    IN  n = 0 \/ (n = 2 /\ glo_cs(buff, 8) = 1)

\* decode_glostr of rtkcmn.c (not part of src/) on strings 1..4 at 0, 10, 20
\* and 30: the string numbers must be 1..4 and the slot of string 4 must
\* name a satellite; iode is tb of string 2
glostr_ok(s) ==
    /\ \A k \in 0..3 : getbitu(s, 80 * k + 1, 4) = k + 1
    /\ satno("GLO", getbitu(s, 310, 5)) # 0

\* the frame id of the string differs from the saved one (line 1069)
fid_differs_never(fid, buff) == FALSE

fid_differs(fid, buff) == fid[1] # buff[13] \/ fid[2] # buff[14]

decode_gnav(r, sat, off, frq) ==
    LET p    == 6 + off
        prn  == satsys(sat).prn
        buff == [k \in 1..16 |->
                    ByteAt(r.buff, p + 4 * ((k - 1) \div 4) + 3 - ((k - 1) % 4))]
        m    == getbitu(buff, 1, 4)
        fid  == SubBytes(r.subfrm, sat, 150, 2)
        sub0 == IF fid_differs(fid, buff)
                THEN PutBytes(PutBytes(r.subfrm, sat, 0, Zeros(40)), sat, 150,
                              <<buff[13], buff[14]>>)
                ELSE r.subfrm
        r1   == [r EXCEPT !.subfrm =
                    PutBytes(sub0, sat, (m - 1) * 10, [k \in 1..10 |-> buff[k]])]
        s    == SubBytes(r1.subfrm, sat, 0, 40)
        geph == [sat |-> satno("GLO", getbitu(s, 310, 5)),
                 iode |-> getbitu(s, 89, 7), frq |-> frq - 7, tof |-> r.time]
    IN  IF r.len < 24 + off THEN Res(r, -1)
        ELSE IF ~test_glostr(buff) THEN Res(r, -1)
        ELSE IF m < 1 \/ 15 < m THEN Res(r, -1)
        ELSE IF m # 4 THEN Res(r1, 0)
        ELSE IF ~glostr_ok(s) \/ geph.sat # sat THEN Res(r1, 0)
        ELSE IF ~r.opt.ephall /\ geph.iode = GephAt(r.nav, prn).iode THEN Res(r1, 0)
        ELSE Res([r1 EXCEPT !.nav = SetGeph(r.nav, prn, geph), !.ephsat = sat], 2)

-----------------------------------------------------------------------------
(* SBAS: decode_snav *)

decode_snav(r, sat, off) ==
    LET p    == 6 + off
        \* time2gpst(timeadd(raw->time,-1.0),&week); an epoch never set lies
        \* before the start of GPS time
        e    == IF IsUnset(r.time) THEN [w |-> -1, ms |-> 0, ns |-> 0]
                ELSE LET t == Epoch(r.time)
                     IN  Norm(t.w - 1, t.ms + MsPerWeek - 1000, t.ns)
        buff == [k \in 1..29 |->
                    ByteAt(r.buff, p + 4 * ((k - 1) \div 4) + 3 - ((k - 1) % 4))]
        msg  == [buff EXCEPT ![29] = (buff[29] \div 64) * 64]
    IN  IF r.len < 40 + off THEN Res(r, -1)
        ELSE Res([r EXCEPT !.sbsmsg = [prn |-> satsys(sat).prn, week |-> e.w,
                                       tow |-> e.ms \div 1000, msg |-> msg]], 3)

-----------------------------------------------------------------------------
(* RXM-SFRBX and TRK-SFRBX *)

\* the switch on the system shared by decode_rxmsfrbx and decode_trksfrbx
sfrbx_route(r, sys, sat, off, frq, und) ==
    CASE sys \in {"GPS", "QZS"} -> decode_nav(r, sat, off, und)
      [] sys = "GAL" -> decode_enav(r, sat, off)
      [] sys = "CMP" -> decode_cnav(r, sat, off)
      [] sys = "GLO" -> decode_gnav(r, sat, off, frq)
      [] sys = "SBS" -> decode_snav(r, sat, off)
      [] OTHER -> Res(r, 0)

decode_rxmsfrbx(r, und) ==
    LET p   == 6
        r1  == SetMsgtype(r, <<"UBX RXM-SFRBX", r.len, U1(r.buff, p), U1(r.buff, p + 1)>>)
        sys == ubx_sys(U1(r.buff, p))
        prn == U1(r.buff, p + 1) + (IF sys = "QZS" THEN 192 ELSE 0)
        sat == satno(sys, prn)
    IN  IF sys = "NONE" THEN Res(r1, -1)
        ELSE IF sat = 0
        THEN IF sys = "GLO" /\ prn = 255 THEN Res(r1, 0) ELSE Res(r1, -1)
        ELSE sfrbx_route(r1, sys, sat, 8, U1(r.buff, p + 3), und)

decode_trksfrbx(r, und) ==
    LET p   == 6
        r1  == SetMsgtype(r, <<"UBX TRK-SFRBX", r.len, U1(r.buff, p + 1), U1(r.buff, p + 2)>>)
        sys == ubx_sys(U1(r.buff, p + 1))
        prn == U1(r.buff, p + 2) + (IF sys = "QZS" THEN 192 ELSE 0)
        sat == satno(sys, prn)
    IN  IF sys = "NONE" THEN Res(r1, -1)
        ELSE IF sat = 0 THEN Res(r1, -1)
        ELSE sfrbx_route(r1, sys, sat, 13, U1(r.buff, p + 4), und)

-----------------------------------------------------------------------------
(* Tracking decoders: decode_trkmeas, decode_trkd5 *)

\* I8: a 64-bit count of 2^-32 ms, kept as its whole milliseconds (the upper
\* four bytes, two's complement) and its fraction (the lower four bytes as
\* two 16-bit halves)
I8(b, i) ==
    [ms |-> Int4([k \in 1..4 |-> ByteAt(b, i + 4 + k - 1)]),
     fh |-> U2(b, i + 2), fl |-> U2(b, i)]
\* the bytes of the field, for the values kept as they were read
I8Bytes(b, i) == [k \in 1..8 |-> ByteAt(b, i + k - 1)]

\* t>tr on two such counts
I8Gt(t, tr) ==
    \/ t.ms > tr.ms
    \/ t.ms = tr.ms /\ (t.fh > tr.fh \/ (t.fh = tr.fh /\ t.fl > tr.fl))

\* tr=-1.0
TrNone == [ms |-> -1000, fh |-> 0, fl |-> 0]

\* timediff(gpst2utc(time),time) of rtkcmn.c (not part of src/), in ms: the
\* leap seconds since 2017
utc_gpst == -18000

\* ROUND((tr+0.08)/0.1)*0.1 in ms, for tr >= 0
trk_round(tr) == 100 * ((tr.ms + 130) \div 100)

\* adjust week handover: the week of raw.time, moved by one when tr is more
\* than half a week from its time of week
trk_week(time, trms) ==
    LET e == Epoch(time)
    IN  IF trms < e.ms - 302400000 \/ (trms = e.ms - 302400000 /\ e.ns > 0)
        THEN e.w + 1
        ELSE IF trms > e.ms + 302400000 THEN e.w - 1
        ELSE e.w

\* adjustment to code measurement in meters, by GLONASS frequency
P_adj_fw2 == <<0, 0, 0, 0, 1, 3, 2, 0, -4, -3, -9, -8, -7, -4, 0>>
P_adj_fw3 == <<11, 13, 13, 14, 14, 13, 12, 10, 8, 6, 5, 5, 5, 7, 0>>

\* the time-tag loop of decode_trkmeas (lines 664-667) over channels
\* lo..hi-1: the largest transmission time of the GPS channels with qi >= 4
RECURSIVE trkmeas_tr(_, _, _, _)
trkmeas_tr(b, lo, hi, tr) ==
    IF hi <= lo THEN tr
    ELSE IF hi = lo + 1
    THEN LET p == 110 + 56 * lo
             t == I8(b, p + 24)
         IN  IF U1(b, p + 1) < 4 \/ ubx_sys(U1(b, p + 4)) # "GPS" THEN tr
             ELSE IF I8Gt(t, tr) THEN t ELSE tr
    ELSE LET mid == lo + ((hi - lo) \div 2)
         IN  CHOOSE last \in {trkmeas_tr(b, mid, hi, first) :
                                 first \in {trkmeas_tr(b, lo, mid, tr)}} : TRUE

\* the travel time and the pseudorange made of it are kept as what they are
\* computed from: the time-tag in ms, the shift of the system's time scale
\* in ms, the code adjustment in m and the bytes of the transmission time
TrkRange(trms, shift, adj, ts) == <<trms, shift, adj>> \o ts
\* -adr: the half cycle added and the bytes of the count
TrkPhase(half, adr) == <<half>> \o adr

\* every channel taken as in phase lock
phase_lock_always(flag) == TRUE
\* check phase lock: flag&0x20 (line 730)
phase_lock(flag) == Bit(flag, 5) = 1

\* one pass of the channel loop of decode_trkmeas (lines 680-761); st = [raw, n].
\* The loop has no test on n: obs.data[n] is written for every channel in
\* phase lock.  obs.data holds MAXOBS rows; a row written at n >= MAXOBS is
\* kept here as a row past the end, which in the program is memory behind
\* the array
trkmeas_block(st, i, c) ==
    LET r     == st.raw
        n     == st.n
        b     == r.buff
        p     == 110 + 56 * i
        qi    == U1(b, p + 1)
        sys   == ubx_sys(U1(b, p + 4))
        prn   == U1(b, p + 5) + (IF sys = "QZS" THEN 192 ELSE 0)
        sat   == satno(sys, prn)
        frq   == U1(b, p + 7) - 7
        flag  == U1(b, p + 8)
        lock2 == U1(b, p + 17)
        snr4  == U2(b, p + 20) \div 64
        slip  == lock2 = 0 \/ lock2 < At(r.lockt, sat, 1)
        lockt1 == Put(IF slip THEN Put(r.lockt, sat, 2, 1) ELSE r.lockt, sat, 1, lock2)
        shift == CASE sys = "CMP" -> 14000
                   [] sys = "GLO" -> 0 - (10800000 + utc_gpst)
                   [] OTHER -> 0
        adj   == IF sys = "GLO" /\ frq >= -7 /\ frq <= 7 /\ r.opt.has_trkm_adj
                 THEN (CASE r.opt.trkm_adj = 2 -> P_adj_fw2[frq + 8]
                         [] r.opt.trkm_adj = 3 -> P_adj_fw3[frq + 8]
                         [] OTHER -> 0)
                 ELSE 0
        lli   == (IF At(lockt1, sat, 2) > 0 THEN 1 ELSE 0)
                   + (IF sys = "SBS" THEN (IF lock2 > 142 THEN 0 ELSE 2)
                      ELSE (IF Bit(flag, 7) = 1 THEN 0 ELSE 2))
        old   == RowAt(r.obs.data, n)
        row   == [old EXCEPT
                    !.time = c.time, !.sat = sat,
                    !.P = [k \in 1..NSLOT |->
                              IF k = 1 THEN TrkRange(c.trms, shift, adj, I8Bytes(b, p + 24))
                              ELSE Zero8],
                    !.L = [k \in 1..NSLOT |->
                              IF k = 1 THEN TrkPhase(Bit(flag, 6), I8Bytes(b, p + 32))
                              ELSE Zero8],
                    !.D = [k \in 1..NSLOT |-> IF k = 1 THEN I4(b, p + 40) ELSE Zero4],
                    !.SNR = [k \in 1..NSLOT |-> IF k = 1 THEN UChar(snr4, c.und) ELSE 0],
                    !.LLI = [k \in 1..NSLOT |-> IF k = 1 THEN lli ELSE 0],
                    !.code = [k \in 1..NSLOT |->
                                 IF k = 1 THEN (IF sys = "CMP" THEN "L2I" ELSE "L1C")
                                 ELSE "NONE"],
                    !.qualL = [k \in 1..NSLOT |-> IF k = 1 THEN 8 - qi ELSE 0],
                    !.qualP = [k \in 1..NSLOT |-> IF k = 1 THEN old.qualP[1] ELSE 0]]
    IN  IF qi < 4 \/ 7 < qi THEN st
        ELSE IF sys = "NONE" \/ sat = 0 THEN st
        ELSE IF ~phase_lock(flag)
        THEN [raw |-> [r EXCEPT !.lockt = lockt1], n |-> n]
        ELSE [raw |-> [r EXCEPT !.lockt = Put(lockt1, sat, 2, 0),
                                !.obs.data = SetRow(r.obs.data, n, row)],
              n |-> n + 1]

\* the passes lo..hi-1 of the loop, in order
RECURSIVE trkmeas_loop(_, _, _, _)
trkmeas_loop(st, lo, hi, c) ==
    IF hi <= lo THEN st
    ELSE IF hi = lo + 1 THEN trkmeas_block(st, lo, c)
    ELSE LET mid == lo + ((hi - lo) \div 2)
         IN  CHOOSE last \in {trkmeas_loop(first, mid, hi, c) :
                                 first \in {trkmeas_loop(st, lo, mid, c)}} : TRUE

decode_trkmeas(r, und) ==
    LET b    == r.buff
        nch  == U1(b, 6 + 2)
        r1   == SetMsgtype(r, <<"UBX TRK-MEAS", r.len>>)
        tr   == trkmeas_tr(b, 0, nch, TrNone)
        trms == trk_round(tr)
        time == GTime(trk_week(r.time, trms), [form |-> "trk", ms |-> trms])
        st   == trkmeas_loop([raw |-> r1, n |-> 0], 0, nch,
                             [time |-> time, trms |-> trms, und |-> und])
    IN  IF IsUnset(r.time) THEN Res(r1, 0)
        ELSE IF r.len < 112 + nch * 56 THEN Res(r1, -1)
        ELSE IF tr.ms < 0 THEN Res(r1, 0)
        ELSE IF st.n <= 0 THEN Res(st.raw, 0)
        ELSE Res([st.raw EXCEPT !.time = time, !.obs.n = st.n], 1)

\* adrs[sat-1]=adr (line 727): the satellites whose entry of the static array
\* adrs a TRK-MEAS frame in r.buff stores into, which are the channels
\* that pass the tests of lines 683-695
trkmeas_adrs(r) ==
    LET b   == r.buff
        nch == U1(b, 6 + 2)
        Sys(i) == ubx_sys(U1(b, 110 + 56 * i + 4))
        Sat(i) == satno(Sys(i), U1(b, 110 + 56 * i + 5) + (IF Sys(i) = "QZS" THEN 192 ELSE 0))
    IN  IF IsUnset(r.time) \/ r.len < 112 + nch * 56
           \/ trkmeas_tr(b, 0, nch, TrNone).ms < 0
        THEN {}
        ELSE {Sat(i) : i \in {k \in 0..(nch - 1) :
                                 /\ U1(b, 110 + 56 * k + 1) >= 4
                                 /\ U1(b, 110 + 56 * k + 1) <= 7
                                 /\ Sys(k) # "NONE" /\ Sat(k) # 0}}

\* the blocks of TRK-D5 by message type: where they start and how long they are
trkd5_off(type) == IF type \in {3, 6} THEN 86 ELSE 78
trkd5_len(type) == IF type = 6 THEN 64 ELSE 56
\* the passes of for (p=raw->buff+off;p-raw->buff<raw->len-2;p+=len)
trkd5_count(len, type) ==
    IF len - 2 <= trkd5_off(type) THEN 0
    ELSE (len - 2 - trkd5_off(type) + trkd5_len(type) - 1) \div trkd5_len(type)

\* the time-tag loop of decode_trkd5 (lines 790-795) over blocks lo..hi-1
RECURSIVE trkd5_tr(_, _, _, _, _)
trkd5_tr(b, type, lo, hi, tr) ==
    IF hi <= lo THEN tr
    ELSE IF hi = lo + 1
    THEN LET p  == trkd5_off(type) + trkd5_len(type) * lo
             t0 == I8(b, p)
             t  == IF ubx_sys(U1(b, p + 56)) = "GLO"
                   THEN [t0 EXCEPT !.ms = t0.ms - (10800000 + utc_gpst)]
                   ELSE t0
         IN  IF U1(b, p + 41) < 4 THEN tr
             ELSE IF I8Gt(t, tr) THEN t ELSE tr
    ELSE LET mid == lo + ((hi - lo) \div 2)
         IN  CHOOSE last \in {trkd5_tr(b, type, mid, hi, first) :
                                 first \in {trkd5_tr(b, type, lo, mid, tr)}} : TRUE

\* one pass of the block loop of decode_trkd5 (lines 808-874); st = [raw, n]
trkd5_block(st, i, c) ==
    LET r     == st.raw
        n     == st.n
        b     == r.buff
        p     == trkd5_off(c.type) + trkd5_len(c.type) * i
        qi    == U1(b, p + 41) % 8
        prn0  == U1(b, p + 34)
        sys   == IF c.type = 6 THEN ubx_sys(U1(b, p + 56))
                 ELSE IF prn0 < MINPRNSBS THEN "GPS" ELSE "SBS"
        prn   == IF c.type = 6 THEN U1(b, p + 57) + (IF sys = "QZS" THEN 192 ELSE 0)
                 ELSE prn0
        sat   == satno(sys, prn)
        flag  == U1(b, p + 54)
        snr   == U2(b, p + 32)
        lockt1 == IF snr <= 2560 THEN Put(r.lockt, sat, 2, 1) ELSE r.lockt
        shift == IF sys = "GLO" THEN 0 - (10800000 + utc_gpst) ELSE 0
        old   == RowAt(r.obs.data, n)
        row   == [old EXCEPT
                    !.time = c.time, !.sat = sat,
                    !.P = [k \in 1..NSLOT |->
                              IF k = 1 THEN TrkRange(c.trms, shift, 0, I8Bytes(b, p))
                              ELSE Zero8],
                    !.L = [k \in 1..NSLOT |->
                              IF k = 1
                              THEN (IF qi < 6 THEN Zero8
                                    ELSE TrkPhase(Bit(flag, 0), I8Bytes(b, p + 8)))
                              ELSE Zero8],
                    !.D = [k \in 1..NSLOT |-> IF k = 1 THEN I4(b, p + 16) ELSE Zero4],
                    !.SNR = [k \in 1..NSLOT |->
                                IF k = 1 THEN UChar(snr \div 64, c.und) ELSE 0],
                    !.LLI = [k \in 1..NSLOT |->
                                IF k = 1 THEN (IF At(lockt1, sat, 2) > 0 THEN 1 ELSE 0)
                                ELSE 0],
                    !.code = [k \in 1..NSLOT |->
                                 IF k = 1 THEN (IF sys = "CMP" THEN "L2I" ELSE "L1C")
                                 ELSE "NONE"]]
    IN  IF qi < 4 \/ 7 < qi THEN st
        ELSE IF sys = "NONE" \/ sat = 0 THEN st
        ELSE IF Bit(flag, 3) = 0
        THEN [raw |-> [r EXCEPT !.lockt = lockt1], n |-> n]
        ELSE [raw |-> [r EXCEPT !.lockt = Put(lockt1, sat, 2, 0),
                                !.obs.data = SetRow(r.obs.data, n, row)],
              n |-> n + 1]

RECURSIVE trkd5_loop(_, _, _, _)
trkd5_loop(st, lo, hi, c) ==
    IF hi <= lo THEN st
    ELSE IF hi = lo + 1 THEN trkd5_block(st, lo, c)
    ELSE LET mid == lo + ((hi - lo) \div 2)
         IN  CHOOSE last \in {trkd5_loop(first, mid, hi, c) :
                                 first \in {trkd5_loop(st, lo, mid, c)}} : TRUE

decode_trkd5(r, und) ==
    LET b    == r.buff
        type == U1(b, 6)
        cnt  == trkd5_count(r.len, type)
        r1   == SetMsgtype(r, <<"UBX TRK-D5", r.len>>)
        tr   == trkd5_tr(b, type, 0, cnt, TrNone)
        trms == trk_round(tr)
        time == GTime(trk_week(r.time, trms), [form |-> "trk", ms |-> trms])
        st   == trkd5_loop([raw |-> r1, n |-> 0], 0, cnt,
                           [time |-> time, trms |-> trms, und |-> und, type |-> type])
    IN  IF IsUnset(r.time) THEN Res(r1, 0)
        ELSE IF tr.ms < 0 THEN Res(r1, 0)
        ELSE IF st.n <= 0 THEN Res(st.raw, 0)
        ELSE Res([st.raw EXCEPT !.time = time, !.obs.n = st.n], 1)

-----------------------------------------------------------------------------
(* Dispatcher and stream framer *)

\* what a call of input_ubx did, for the history variable info:
\*   disp  - decode_ubx was invoked
\*   dec   - the message decoder that ran ("none", or "unknown" for the
\*           fall-through of the switch)
\*   store - the buffer index the byte was stored at by line 1320 (-1: none)
NoInfo == [disp |-> FALSE, dec |-> "none", store |-> -1]

decode_ubx(r, und) ==
    LET type == U1(r.buff, 2) * 256 + U1(r.buff, 3)
        With(res, name) == [raw |-> res.raw, ret |-> res.ret, dec |-> name]
    IN  IF ~checksum(r.buff, r.len)
        THEN [raw |-> r, ret |-> -1, dec |-> "none"]
        ELSE CASE type = ID_RXMRAW  -> With(decode_rxmraw(r, und), "rxmraw")
               [] type = ID_RXMRAWX -> With(decode_rxmrawx(r), "rxmrawx")
               [] type = ID_RXMSFRB -> With(decode_rxmsfrb(r), "rxmsfrb")
               [] type = ID_RXMSFRBX -> With(decode_rxmsfrbx(r, und), "rxmsfrbx")
               [] type = ID_TRKMEAS -> With(decode_trkmeas(r, und), "trkmeas")
               [] type = ID_TRKD5   -> With(decode_trkd5(r, und), "trkd5")
               [] type = ID_TRKSFRBX -> With(decode_trksfrbx(r, und), "trksfrbx")
               [] type = ID_NAVSOL  -> With(decode_navsol(r), "navsol")
               [] type = ID_NAVTIME -> With(decode_navtime(r), "navtime")
               [] type = ID_TIMTM2  -> With(decode_timtm2(r, und), "timtm2")
               [] type \notin SupportedIds ->
                    With(Res(SetMsgtype(r, <<"UBX", type \div 256, type % 16, r.len>>),
                             0), "unknown")

sync_ubx_stale(buff, data) ==
    [buff |-> SetByte(SetByte(buff, 0, ByteAt(buff, 1)), 1, data),
     ok   |-> data = UBXSYNC2 /\ ByteAt(buff, 0) = UBXSYNC1]

\* buff[0]=buff[1]; buff[1]=data; return buff[0]==UBXSYNC1&&buff[1]==UBXSYNC2
sync_ubx(buff, data) ==
    LET b1 == SetByte(buff, 0, ByteAt(buff, 1))
        b2 == SetByte(b1, 1, data)
    IN  [buff |-> b2, ok |-> ByteAt(b2, 0) = UBXSYNC1 /\ ByteAt(b2, 1) = UBXSYNC2]

\* the length gate of line 1323
oversize_off(len) == FALSE

oversize(len) == len > MAXRAWLEN

\* the end-of-frame test of line 1329: TRUE while the frame is incomplete
incomplete_late(nbyte, len) == nbyte < 6 \/ nbyte <= len

incomplete(nbyte, len) == nbyte < 6 \/ nbyte < len

input_ubx(r, data, und) ==
    IF r.nbyte = 0
    THEN LET s == sync_ubx(r.buff, data)
         IN  IF ~s.ok
             THEN [raw |-> [r EXCEPT !.buff = s.buff], ret |-> 0, info |-> NoInfo]
             ELSE [raw |-> [r EXCEPT !.buff = s.buff, !.nbyte = 2], ret |-> 0,
                   info |-> NoInfo]
    ELSE LET r1 == [r EXCEPT !.buff = SetByte(r.buff, r.nbyte, data),
                             !.nbyte = r.nbyte + 1]
             st == [NoInfo EXCEPT !.store = r.nbyte]
             r2 == IF r1.nbyte = 6 THEN [r1 EXCEPT !.len = U2(r1.buff, 4) + 8] ELSE r1
         IN  IF r1.nbyte = 6 /\ oversize(r2.len)
             THEN [raw |-> [r2 EXCEPT !.nbyte = 0], ret |-> -1, info |-> st]
             ELSE IF incomplete(r2.nbyte, r2.len)
             THEN [raw |-> r2, ret |-> 0, info |-> st]
             ELSE LET Out(d) == [raw |-> d.raw, ret |-> d.ret,
                                 info |-> [st EXCEPT !.disp = TRUE, !.dec = d.dec]]
                  IN  Out(decode_ubx([r2 EXCEPT !.nbyte = 0], und))

-----------------------------------------------------------------------------
(* File framer: input_ubxf *)

\* the most bytes the synchronisation loop reads past its first
ResyncCap == 4096

\* if (i>=4096) return 0
resync_cap_none(i) == i >= 0

resync_cap(i) == i >= ResyncCap

\* fread(raw->buff+off,1,n,fp) with the file at pos: the bytes stored and
\* their number, less than n where the file ends
fread(buff, off, n, fp, pos) ==
    LET got == IF Len(fp) - pos < n THEN Len(fp) - pos ELSE n
    IN  [buff |-> [k \in 1..(IF Len(buff) > off + got THEN Len(buff) ELSE off + got) |->
                      IF k > off /\ k <= off + got THEN fp[pos + k - off]
                      ELSE IF k <= Len(buff) THEN buff[k] ELSE 0],
         got |-> got]

\* one pass of for (i=0;;i++) in input_ubxf; st = [buff, pos, i, out], out
\* says how the loop ended, "scan" while it has not
ubxf_sync_pass(st, fp) ==
    IF st.out # "scan" THEN st
    ELSE IF st.pos >= Len(fp) THEN [st EXCEPT !.out = "eof"]
    ELSE LET s == sync_ubx(st.buff, fp[st.pos + 1])
         IN  IF s.ok THEN [st EXCEPT !.buff = s.buff, !.pos = st.pos + 1, !.out = "sync"]
             ELSE IF resync_cap(st.i)
             THEN [st EXCEPT !.buff = s.buff, !.pos = st.pos + 1, !.out = "cap"]
             ELSE [st EXCEPT !.buff = s.buff, !.pos = st.pos + 1, !.i = st.i + 1]

\* n passes of the loop, in order; the range is halved, and the outcome of
\* the first half bound before the second starts, only to keep the
\* evaluation shallow
RECURSIVE ubxf_sync(_, _, _)
ubxf_sync(st, fp, n) ==
    IF n <= 0 \/ st.out # "scan" THEN st
    ELSE IF n = 1 THEN ubxf_sync_pass(st, fp)
    ELSE CHOOSE last \in {ubxf_sync(first, fp, n - (n \div 2)) :
                             first \in {ubxf_sync(st, fp, n \div 2)}} : TRUE

\* input_ubxf after its synchronisation loop ended as sc says: the header
\* and the rest of the frame are read and the frame is given to decode_ubx
ubxf_frame(r, fp, sc, und) ==
    LET Ret(rr, status, at, dec) == [raw |-> rr, ret |-> status, pos |-> at, disp |-> dec]
        Out(d, at) == Ret(d.raw, d.ret, at, TRUE)
        Body(r2, body) ==
            IF body.got < r2.len - 6
            THEN Ret([r2 EXCEPT !.buff = body.buff], -2, sc.pos + 4 + body.got, FALSE)
            ELSE Out(decode_ubx([r2 EXCEPT !.buff = body.buff, !.nbyte = 0], und),
                     sc.pos + r2.len - 2)
        Header(hd) ==
            IF hd.got < 4
            THEN Ret([r EXCEPT !.buff = hd.buff], -2, sc.pos + hd.got, FALSE)
            ELSE IF oversize(U2(hd.buff, 4) + 8)
            THEN Ret([r EXCEPT !.buff = hd.buff, !.nbyte = 0, !.len = U2(hd.buff, 4) + 8],
                     -1, sc.pos + 4, FALSE)
            ELSE Body([r EXCEPT !.buff = hd.buff, !.nbyte = 6, !.len = U2(hd.buff, 4) + 8],
                      fread(hd.buff, 6, U2(hd.buff, 4) + 2, fp, sc.pos + 4))
    IN  IF sc.out = "eof" THEN Ret([r EXCEPT !.buff = sc.buff], -2, sc.pos, FALSE)
        ELSE IF sc.out = "cap" THEN Ret([r EXCEPT !.buff = sc.buff], 0, sc.pos, FALSE)
        ELSE Header(fread(sc.buff, 2, 4, fp, sc.pos))

\* input_ubxf(raw,fp) with the file fp read up to pos: the struct and the
\* file position after the call, the status, and whether decode_ubx was
\* reached
input_ubxf(r, fp, pos, und) ==
    CHOOSE o \in {ubxf_frame(r, fp, sc, und) :
                     sc \in {IF r.nbyte = 0
                             THEN ubxf_sync([buff |-> r.buff, pos |-> pos, i |-> 0,
                                             out |-> "scan"], fp, ResyncCap + 1)
                             ELSE [buff |-> r.buff, pos |-> pos, i |-> 0,
                                   out |-> "sync"]}} : TRUE

-----------------------------------------------------------------------------
(* Specification Spec: a byte stream fed to input_ubx one byte at a time.   *)
(* The sender emits garbage bytes and frames; the receiver may lose step    *)
(* with it.                                                                 *)

\* bounds of the model
MaxFeed == 12
MaxGarbage == 3

\* the indeterminate upper word of U4's result (0 on builds with 32-bit long)
UndWords == {0, 1}

\* a frame as a correct sender builds it
MkFrame(cls, id, payload) ==
    LET n == Len(payload) + 8
    IN  setcs(<<UBXSYNC1, UBXSYNC2, cls, id, Len(payload) % 256, Len(payload) \div 256>>
              \o payload \o <<0, 0>>, n)

\* the frame with its last checksum byte damaged
Damaged(f) == [f EXCEPT ![Len(f)] = (f[Len(f)] + 1) % 256]

GoodFrames ==
    { MkFrame(6, 0, <<>>),          \* CFG class, no decoder (B5 62 06 00 00 00 06 18)
      MkFrame(13, 3, <<0, 4>>),     \* TIM-TM2, new falling edge
      MkFrame(1, 6, <<>>),          \* NAV-SOL without payload
      MkFrame(2, 21, <<>>) }        \* RXM-RAWX, too short

\* headers whose length field is at and beyond the limit; the sender stops
\* after the header
Headers ==
    { <<UBXSYNC1, UBXSYNC2, 6, 0, 248, 15>>,      \* len = 4096
      <<UBXSYNC1, UBXSYNC2, 6, 0, 249, 15>>,      \* len = 4097
      <<UBXSYNC1, UBXSYNC2, 13, 3, 2, UBXSYNC1>> }

TxFrames == GoodFrames \cup {Damaged(f) : f \in GoodFrames} \cup Headers

Garbage == {0, UBXSYNC1, UBXSYNC2}

\* the number of bytes fed so far that the sender emitted as garbage
NGarbage == Cardinality({k \in 1..Len(hist) : hist[k].garbage})

GenIdle == gmsg = <<>> /\ gbuff = <<>> /\ gn = 0 /\ gpos = 0 /\ gidle = FALSE

Init ==
    /\ \E ot \in BOOLEAN : raw = RawInit(ot, Opt0)
    /\ ret = 0
    /\ info = NoInfo
    /\ hist = <<>>
    /\ tx = <<>>
    /\ sent = <<>>
    /\ GenIdle

\* one call input_ubx(raw, data)
Call(data, und, g) ==
    \E o \in {input_ubx(raw, data, und)} :
        /\ raw' = o.raw
        /\ ret' = o.ret
        /\ info' = o.info
        /\ hist' = Append(hist, [data |-> data, nbyte0 |-> raw.nbyte,
                                 nbyte1 |-> o.raw.nbyte, ret |-> o.ret,
                                 disp |-> o.info.disp, dec |-> o.info.dec,
                                 store |-> o.info.store, garbage |-> g])

\* the sender emits a garbage byte
FeedGarbage ==
    /\ Len(hist) < MaxFeed
    /\ tx = <<>>
    /\ NGarbage < MaxGarbage
    /\ \E data \in Garbage, und \in UndWords : Call(data, und, TRUE)
    /\ UNCHANGED <<tx, gmsg, gbuff, gn, gpos, gidle, sent>>

\* the sender starts a frame and emits its first byte
FeedStart ==
    /\ Len(hist) < MaxFeed
    /\ tx = <<>>
    /\ \E f \in TxFrames, und \in UndWords :
          /\ Call(Head(f), und, FALSE)
          /\ tx' = Tail(f)
    /\ UNCHANGED <<gmsg, gbuff, gn, gpos, gidle, sent>>

\* the sender emits the next byte of its frame
FeedFrame ==
    /\ Len(hist) < MaxFeed
    /\ tx # <<>>
    /\ \E und \in UndWords : Call(Head(tx), und, FALSE)
    /\ tx' = Tail(tx)
    /\ UNCHANGED <<gmsg, gbuff, gn, gpos, gidle, sent>>

Next == FeedGarbage \/ FeedStart \/ FeedFrame

Spec == Init /\ [][Next]_vars

-----------------------------------------------------------------------------
(* Properties of the stream framer (specification Spec) *)

\* the bytes fed so far
Fed == [k \in 1..Len(hist) |-> hist[k].data]

\* the sum of w[lo..hi]
RECURSIVE SumRange(_, _, _)
SumRange(w, lo, hi) ==
    IF hi < lo THEN 0
    ELSE IF hi = lo THEN w[lo]
    ELSE LET mid == lo + ((hi - lo) \div 2)
         IN  SumRange(w, lo, mid) + SumRange(w, mid + 1, hi)

\* the Fletcher sums of a sequence of bytes, as the protocol defines them:
\* CK_A is the sum of the bytes and CK_B the sum of the running values of
\* CK_A, both modulo 256
Fletcher(seq) ==
    LET n == Len(seq)
    IN  <<SumRange(seq, 1, n) % 256,
          SumRange([k \in 1..n |-> (n - k + 1) * seq[k]], 1, n) % 256>>

\* the two trailing bytes of frame f carry the sums over f[3 .. Len(f)-2]
SumsMatch(f) ==
    Fletcher(SubSeq(f, 3, Len(f) - 2)) = <<f[Len(f) - 1], f[Len(f)]>>

\* call s synchronised: it found the framer idle and left it with nbyte = 2
SyncAt(s) == hist[s].nbyte0 = 0 /\ hist[s].nbyte1 = 2

\* C1: between calls nbyte is 0, or 2 <= nbyte < 6, or 6 <= nbyte < len with
\* 8 <= len <= MAXRAWLEN, and no byte is stored at an index >= MAXRAWLEN of
\* the frame buffer.
C1_NbyteValid ==
    /\ \/ raw.nbyte = 0
       \/ 2 <= raw.nbyte /\ raw.nbyte < 6
       \/ 6 <= raw.nbyte /\ raw.nbyte < raw.len /\ 8 <= raw.len /\ raw.len <= MAXRAWLEN
    /\ \A k \in 1..Len(hist) : hist[k].store < MAXRAWLEN
    /\ Len(raw.buff) <= MAXRAWLEN

\* a frame of exactly MAXRAWLEN bytes is being accumulated
C1_Witness == raw.nbyte >= 6 /\ raw.len = MAXRAWLEN /\ info.store = raw.nbyte - 1

\* C2: after synchronisation on a frame that declares payload length L with
\* L+8 <= MAXRAWLEN, every call up to the (L+7)-th byte returns 0 without
\* invoking the dispatcher, and the call that feeds the (L+8)-th byte invokes
\* the dispatcher and resets nbyte to 0.  (Call s feeds the 2nd byte.)
C2_DeliveredOnce ==
    \A s \in 1..Len(hist) :
        SyncAt(s) =>
            IF Len(hist) < s + 4
            THEN \A k \in s..Len(hist) : hist[k].ret = 0 /\ ~hist[k].disp
            ELSE LET L == hist[s + 3].data + 256 * hist[s + 4].data
                 IN  L + 8 <= MAXRAWLEN =>
                       /\ \A k \in s..Min(Len(hist), s + L + 5) :
                             hist[k].ret = 0 /\ ~hist[k].disp /\ hist[k].nbyte1 # 0
                       /\ Len(hist) >= s + L + 6 =>
                             hist[s + L + 6].disp /\ hist[s + L + 6].nbyte1 = 0

\* a frame with a payload of two bytes has been handed to the dispatcher
C2_Witness ==
    \E s \in 1..Len(hist) :
        /\ SyncAt(s) /\ Len(hist) >= s + 8
        /\ hist[s + 3].data = 2 /\ hist[s + 4].data = 0
        /\ hist[s + 8].disp

\* C3 as stated: while nbyte = 0, nbyte becomes 2 exactly when the byte fed is
\* 0x62 and the byte fed immediately before it was 0xB5; every other byte
\* fed while nbyte = 0 returns 0 and leaves nbyte = 0.
C3_SyncOnPair ==
    \A k \in 1..Len(hist) :
        hist[k].nbyte0 = 0 =>
            /\ hist[k].nbyte1 = 2 <=>
                 (hist[k].data = UBXSYNC2 /\ k > 1 /\ hist[k - 1].data = UBXSYNC1)
            /\ hist[k].nbyte1 # 2 => (hist[k].ret = 0 /\ hist[k].nbyte1 = 0)

\* C3 amended: while nbyte = 0, nbyte becomes 2 exactly when the byte fed is
\* 0x62 and the byte fed immediately before it was 0xB5 and was itself fed
\* while nbyte = 0; every other byte fed while nbyte = 0 returns 0 and leaves
\* nbyte = 0; a synchronising call returns 0 too.
C3_SyncOnIdlePair ==
    \A k \in 1..Len(hist) :
        hist[k].nbyte0 = 0 =>
            /\ hist[k].nbyte1 = 2 <=>
                 (/\ hist[k].data = UBXSYNC2 /\ k > 1
                  /\ hist[k - 1].data = UBXSYNC1 /\ hist[k - 1].nbyte0 = 0)
            /\ hist[k].nbyte1 # 2 => hist[k].nbyte1 = 0
            /\ hist[k].ret = 0 /\ ~hist[k].disp

\* the framer has synchronised after a frame was completed or rejected
C3_Witness ==
    \E k \in 1..Len(hist), m \in 1..Len(hist) :
        m < k /\ SyncAt(k) /\ hist[m].nbyte0 # 0 /\ hist[m].nbyte1 = 0

\* C4: when the sixth byte of a frame is fed and the declared length
\* U2(buf+4)+8 exceeds MAXRAWLEN, the call resets nbyte to 0, returns -1,
\* does not invoke the dispatcher and changes nothing of the receiver state
\* but the frame accumulator.
C4_Oversize ==
    [][ (raw.nbyte = 5 /\ Len(hist') > Len(hist)
         /\ ByteAt(raw.buff, 4) + 256 * hist'[Len(hist')].data + 8 > MAXRAWLEN)
        => (/\ raw'.nbyte = 0 /\ ret' = -1 /\ ~info'.disp
            /\ Decoded(raw') = Decoded(raw)) ]_vars

\* a header declaring MAXRAWLEN+1 bytes has been rejected
C4_Witness ==
    /\ ret = -1 /\ raw.nbyte = 0 /\ info.store = 5 /\ raw.len = MAXRAWLEN + 1

\* calls i+1..j were made on garbage and calls j+1..k fed a well-formed frame
NoPair(i, j) ==
    \A m \in (i + 1)..(j - 1) : ~(Fed[m] = UBXSYNC1 /\ Fed[m + 1] = UBXSYNC2)
WellFormed(j, k) ==
    /\ k - j >= 8 /\ k <= Len(hist)
    /\ Fed[j + 1] = UBXSYNC1 /\ Fed[j + 2] = UBXSYNC2
    /\ k - j = Fed[j + 5] + 256 * Fed[j + 6] + 8
    /\ k - j <= MAXRAWLEN
    /\ SumsMatch(SubSeq(Fed, j + 1, k))
\* the call passed checksum verification and returned the decoder's status
Accepted(k) == hist[k].disp /\ hist[k].dec # "none" /\ hist[k].nbyte1 = 0

\* C5 as stated: if the framer is idle (nbyte = 0) and is fed garbage that
\* contains no B5 62 pair, followed by a well-formed frame, the call feeding
\* the last byte of the frame passes checksum verification.
C5_AcceptAfterGarbage ==
    \A j \in 0..Len(hist), k \in 1..Len(hist) :
        (j < k /\ WellFormed(j, k)) =>
            \A i \in 0..j :
                (hist[i + 1].nbyte0 = 0 /\ NoPair(i, j)) => Accepted(k)

\* C5 amended: as C5, provided the garbage does not complete a B5 62 pair
\* with a byte 0xB5 fed just before it while the framer was already idle.
C5_AcceptAfterCleanGarbage ==
    \A j \in 0..Len(hist), k \in 1..Len(hist) :
        (j < k /\ WellFormed(j, k)) =>
            \A i \in 0..j :
                (/\ hist[i + 1].nbyte0 = 0
                 /\ NoPair(i, j)
                 /\ ~(i >= 1 /\ i < j /\ hist[i].nbyte0 = 0
                      /\ Fed[i] = UBXSYNC1 /\ Fed[i + 1] = UBXSYNC2))
                => Accepted(k)

\* the scenario 00 00 B5 62 06 00 00 00 06 18 has been fed and accepted
C5_Witness ==
    /\ Len(hist) = 10
    /\ Fed = <<0, 0, 181, 98, 6, 0, 0, 0, 6, 24>>
    /\ Accepted(10) /\ hist[10].ret = 0

\* the call that feeds the last byte of the frame synchronised at call s,
\* whose header is complete: the byte at the declared end, or the sixth
\* byte where the declared length exceeds MAXRAWLEN
FrameEnd(s) ==
    LET L == hist[s + 3].data + 256 * hist[s + 4].data
    IN  IF L + 8 <= MAXRAWLEN THEN s + L + 6 ELSE s + 4

\* C39: bytes consumed as part of a frame are never re-examined for
\* synchronisation: after a frame is completed or rejected, the sync search
\* resumes only with the byte that follows the frame's declared end (after
\* an oversize header, with the seventh byte), so a valid frame that starts
\* inside the declared extent of a corrupt or falsely synchronised frame is
\* not delivered.
C39_ConsumedNotReexamined ==
    \A s \in 1..Len(hist) :
        SyncAt(s) =>
            /\ s > 1 /\ hist[s - 1].nbyte0 = 0 /\ hist[s - 1].data = UBXSYNC1
            /\ \A k \in (s + 1)..Len(hist) :
                  IF Len(hist) < s + 4 \/ k <= FrameEnd(s)
                  THEN hist[k].nbyte0 # 0 /\ ~SyncAt(k)
                  ELSE k = FrameEnd(s) + 1 => (hist[k].nbyte0 = 0 /\ ~SyncAt(k))
            /\ \A j \in (s - 1)..Len(hist), k \in 1..Len(hist) :
                  (/\ Len(hist) >= s + 4 /\ j + 1 <= FrameEnd(s)
                   /\ j < k /\ WellFormed(j, k))
                  => ~SyncAt(j + 2) /\ ~(hist[k].disp /\ hist[k].dec # "none")

\* B5 62 was taken for the start of a frame of 14 bytes, and the frame
\* B5 62 06 00 00 00 06 18 that followed was consumed as part of it
C39_Witness ==
    /\ Len(hist) = 10
    /\ Fed = <<181, 98, 181, 98, 6, 0, 0, 0, 6, 24>>
    /\ SyncAt(2) /\ FrameEnd(2) = 14 /\ WellFormed(2, 10)
    /\ raw.nbyte = 10 /\ ~hist[10].disp

\* C6: a complete frame whose two trailing bytes do not equal the Fletcher
\* sums is discarded by the dispatcher: the call returns -1, no message
\* decoder runs and the decoded receiver state is unchanged.
C6_BadChecksum ==
    [][ (Len(hist') > Len(hist) /\ info'.disp
         /\ ~SumsMatch(SubSeq(raw'.buff, 1, raw'.len)))
        => (/\ ret' = -1 /\ info'.dec = "none"
            /\ Decoded(raw') = Decoded(raw)) ]_vars

\* a TIM-TM2 frame with a damaged checksum has been discarded
C6_Witness ==
    /\ info.disp /\ info.dec = "none" /\ ret = -1
    /\ ByteAt(raw.buff, 2) = 13 /\ ByteAt(raw.buff, 3) = 3 /\ raw.len = 10

-----------------------------------------------------------------------------
(* Outbound generator: gen_ubx *)

FU1 == 1
FU2 == 2
FU4 == 3
FU8 == 4
FI1 == 5
FI2 == 6
FI4 == 7
FR4 == 8
FR8 == 9
FS32 == 10

\* the command catalog of gen_ubx (index 0 first; the "" terminator is the
\* end of the sequence)
cmd == <<"PRT", "USB", "MSG", "NMEA", "RATE", "CFG", "TP", "NAV2", "DAT", "INF",
         "RST", "RXM", "ANT", "FXN", "SBAS", "LIC", "TM", "TM2", "TMODE", "EKF",
         "GNSS", "ITFM", "LOGFILTER", "NAV5", "NAVX5", "ODO", "PM2", "PWR", "RINV", "SMGR",
         "TMODE2", "TMODE3", "TPS", "TXSLOT", "VALSET">>
id == <<0, 27, 1, 23, 8, 9, 7, 26, 6, 2,
        4, 17, 19, 14, 22, 128, 16, 25, 29, 18,
        62, 57, 71, 36, 35, 30, 59, 87, 52, 98,
        54, 113, 49, 83, 138>>
prm == <<
    <<FU1, FU1, FU2, FU4, FU4, FU2, FU2, FU2, FU2>>,
    <<FU2, FU2, FU2, FU2, FU2, FU2, FS32, FS32, FS32>>,
    <<FU1, FU1, FU1, FU1, FU1, FU1, FU1, FU1>>,
    <<FU1, FU1, FU1, FU1>>,
    <<FU2, FU2, FU2>>,
    <<FU4, FU4, FU4, FU1>>,
    <<FU4, FU4, FI1, FU1, FU2, FI2, FI2, FI4>>,
    <<FU1, FU1, FU2, FU1, FU1, FU1, FU1, FI4, FU1, FU1, FU1, FU1, FU1, FU1, FU2, FU2, FU2, FU2,
      FU2, FU1, FU1, FU2, FU4, FU4>>,
    <<FR8, FR8, FR4, FR4, FR4, FR4, FR4, FR4, FR4>>,
    <<FU1, FU1, FU1, FU1, FU1, FU1, FU1, FU1, FU1, FU1>>,
    <<FU2, FU1, FU1>>,
    <<FU1, FU1>>,
    <<FU2, FU2>>,
    <<FU4, FU4, FU4, FU4, FU4, FU4, FU4, FU4>>,
    <<FU1, FU1, FU1, FU1, FU4>>,
    <<FU2, FU2, FU2, FU2, FU2, FU2>>,
    <<FU4, FU4, FU4>>,
    <<FU1, FU1, FU2, FU4, FU4>>,
    <<FU4, FI4, FI4, FI4, FU4, FU4, FU4>>,
    <<FU1, FU1, FU1, FU1, FU4, FU2, FU2, FU1, FU1, FU2>>,
    <<FU1, FU1, FU1, FU1, FU1, FU1, FU1, FU1, FU4>>,
    <<FU4, FU4>>,
    <<FU1, FU1, FU2, FU2, FU2, FU4>>,
    <<FU2, FU1, FU1, FI4, FU4, FI1, FU1, FU2, FU2, FU2, FU2, FU1, FU1, FU1, FU1, FU1, FU1, FU2,
      FU1, FU1, FU1, FU1, FU1, FU1>>,
    <<FU2, FU2, FU4, FU1, FU1, FU1, FU1, FU1, FU1, FU1, FU1, FU1, FU1, FU2, FU1, FU1, FU1, FU1,
      FU1, FU1, FU1, FU1, FU1, FU1, FU2>>,
    <<FU1, FU1, FU1, FU1, FU1, FU1, FU1, FU1, FU1>>,
    <<FU1, FU1, FU1, FU1, FU4, FU4, FU4, FU4, FU2, FU2>>,
    <<FU1, FU1, FU1, FU1, FU4>>,
    <<FU1, FU1>>,
    <<FU1, FU1, FU2, FU2, FU1, FU1, FU2, FU2, FU2, FU2, FU4>>,
    <<FU1, FU1, FU2, FI4, FI4, FI4, FU4, FU4, FU4>>,
    <<FU1, FU1, FU2, FI4, FI4, FI4, FU4, FU4, FU4>>,
    <<FU1, FU1, FU1, FU1, FI2, FI2, FU4, FU4, FU4, FU4, FI4, FU4>>,
    <<FU1, FU1, FU1, FU1, FU4, FU4, FU4, FU4, FU4>>,
    <<FU1, FU1, FU1, FU1>> >>

\* prm[i][j] of the 32-column table: columns past the initialisers are 0
prmAt(i, j) == IF j + 1 <= Len(prm[i + 1]) THEN prm[i + 1][j + 1] ELSE 0

\* ten of the 640 VALSET keys, each with the key id at the same index of
\* vid[] (as its four bytes, least significant first) and its type in vprm[]
vcmd == <<"GEOFENCE-CONFLVL", "GEOFENCE-FENCE1_LAT", "GEOFENCE-FENCE1_RAD",
          "LOGFILTER-MIN_INTERVAL", "NAVSPG-USRDAT_MAJA", "NAVSPG-USRDAT_DX",
          "NAVSPG-INFIL_MINELEV", "RATE-MEAS", "RINV-CHUNK0", "TP-ANT_CABLEDELAY">>
vid == << <<17, 0, 36, 32>>, <<33, 0, 36, 64>>, <<35, 0, 36, 64>>,
          <<5, 0, 222, 48>>, <<98, 0, 17, 80>>, <<100, 0, 17, 64>>,
          <<164, 0, 17, 32>>, <<1, 0, 33, 48>>, <<4, 0, 199, 80>>, <<1, 0, 5, 48>> >>
vprm == <<FU1, FI4, FU4, FU2, FR8, FR4, FI1, FU2, FU8, FI2>>

\* a command text is the sequence of its space-separated words; two spaces
\* in a row give an empty word.  strtok(.," ") skips the empty words, and
\* at most 32 tokens are kept
MAXARGS == 32
strtok(msg) ==
    LET toks == SelectSeq(msg, LAMBDA w : w # "")
    IN  SubSeq(toks, 1, Min(Len(toks), MAXARGS))

\* !strncmp(s,"CFG-",4)
HasCfgPrefix(s) == Len(s) >= 4 /\ SubSeq(s, 1, 4) = "CFG-"
\* s+4
After4(s) == SubSeq(s, 5, Len(s))

\* a search that ends on the first entry when the name is not found
lookup_first(catalog, name, k0) ==
    LET hits == {k \in k0..(Len(catalog) - 1) : catalog[k + 1] = name}
    IN  IF hits = {} THEN 0
        ELSE CHOOSE k \in hits : \A m \in hits : k <= m

\* for (k=0;*catalog[k];k++) if (!strcmp(name,catalog[k])) break;
\* the first index that holds name, or Len(catalog), the index of the ""
\* terminator
lookup(catalog, name, k0) ==
    LET hits == {k \in k0..(Len(catalog) - 1) : catalog[k + 1] = name}
    IN  IF hits = {} THEN Len(catalog)
        ELSE CHOOSE k \in hits : \A m \in hits : k <= m

DigitVal == ("0" :> 0) @@ ("1" :> 1) @@ ("2" :> 2) @@ ("3" :> 3) @@ ("4" :> 4) @@
            ("5" :> 5) @@ ("6" :> 6) @@ ("7" :> 7) @@ ("8" :> 8) @@ ("9" :> 9)
RECURSIVE digits(_, _, _)
digits(s, k, acc) ==
    IF k > Len(s) \/ SubSeq(s, k, k) \notin DOMAIN DigitVal THEN acc
    ELSE digits(s, k + 1, 10 * acc + DigitVal[SubSeq(s, k, k)])
\* atoi: optional sign, then the leading decimal digits
atoi(s) ==
    IF Len(s) >= 1 /\ SubSeq(s, 1, 1) = "-" THEN 0 - digits(s, 2, 0)
    ELSE IF Len(s) >= 1 /\ SubSeq(s, 1, 1) = "+" THEN digits(s, 2, 0)
    ELSE digits(s, 1, 0)

\* atof followed by the store of the double / float: the IEEE-754 bytes in
\* memory order of the values the command texts below use
atof8 == ("0" :> <<0, 0, 0, 0, 0, 0, 0, 0>>) @@
         ("-1" :> <<0, 0, 0, 0, 0, 0, 240, 191>>) @@
         ("1" :> <<0, 0, 0, 0, 0, 0, 240, 63>>) @@
         ("9600" :> <<0, 0, 0, 0, 0, 192, 194, 64>>) @@
         ("70000" :> <<0, 0, 0, 0, 0, 23, 241, 64>>) @@
         ("6378137.0" :> <<0, 0, 0, 64, 166, 84, 88, 65>>) @@
         ("298.257223563" :> <<136, 109, 116, 150, 29, 164, 114, 64>>)
atof4 == ("0" :> <<0, 0, 0, 0>>) @@
         ("-1" :> <<0, 0, 128, 191>>) @@
         ("1" :> <<0, 0, 128, 63>>) @@
         ("9600" :> <<0, 0, 22, 70>>) @@
         ("70000" :> <<0, 184, 136, 71>>) @@
         ("6378137.0" :> <<50, 165, 194, 74>>) @@
         ("298.257223563" :> <<237, 32, 149, 67>>)

\* character codes of the characters the command texts below use
Ascii == (" " :> 32) @@ ("-" :> 45) @@ ("." :> 46) @@
         ("0" :> 48) @@ ("1" :> 49) @@ ("2" :> 50) @@ ("3" :> 51) @@ ("4" :> 52) @@
         ("5" :> 53) @@ ("6" :> 54) @@ ("7" :> 55) @@ ("8" :> 56) @@ ("9" :> 57) @@
         ("b" :> 98) @@ ("l" :> 108) @@ ("o" :> 111) @@ ("u" :> 117) @@ ("x" :> 120)

\* the low nb bytes of integer v in two's complement, least significant first
LEBytes(v, nb) == [k \in 1..nb |-> (v \div (256 ^ (k - 1))) % 256]

\* sprintf(q,"%-32.32s",s): 32 characters, left-justified, space padded,
\* and the terminating NUL
Pad32(s) ==
    [k \in 1..33 |-> IF k = 33 THEN 0
                     ELSE IF k <= Len(s) THEN Ascii[SubSeq(s, k, k)] ELSE 32]

\* memcpy(buff+q,bytes,Len(bytes))
WriteBytes(buff, q, bytes) ==
    LET padded == IF Len(buff) < q THEN buff \o Zeros(q - Len(buff)) ELSE buff
    IN  SubSeq(padded, 1, q) \o bytes \o SubSeq(padded, q + Len(bytes) + 1, Len(padded))

\* one case of the field switch: the bytes stored and the advance of q.
\* has is j<narg, s the argument text
field(type, has, s) ==
    CASE type = FU1  -> [bytes |-> LEBytes(IF has THEN atoi(s) ELSE 0, 1), adv |-> 1]
      [] type = FU2  -> [bytes |-> LEBytes(IF has THEN atoi(s) ELSE 0, 2), adv |-> 2]
      [] type = FU4  -> [bytes |-> LEBytes(IF has THEN atoi(s) ELSE 0, 4), adv |-> 4]
      [] type = FI1  -> [bytes |-> LEBytes(IF has THEN atoi(s) ELSE 0, 1), adv |-> 1]
      [] type = FI2  -> [bytes |-> LEBytes(IF has THEN atoi(s) ELSE 0, 2), adv |-> 2]
      [] type = FI4  -> [bytes |-> LEBytes(IF has THEN atoi(s) ELSE 0, 4), adv |-> 4]
      [] type = FR4  -> [bytes |-> IF has THEN atof4[s] ELSE Zero4, adv |-> 4]
      [] type = FR8  -> [bytes |-> IF has THEN atof8[s] ELSE Zero8, adv |-> 8]
      [] type = FS32 -> [bytes |-> Pad32(IF has THEN s ELSE ""), adv |-> 32]
      [] OTHER       -> [bytes |-> LEBytes(IF has THEN atoi(s) ELSE 0, 1), adv |-> 1]

\* a loop test that looks at the field table only
more_fields_declared(i, j, narg) == prmAt(i, j - 1) # 0

\* the loop test prm[i][j-1]||j<narg
more_fields(i, j, narg) == prmAt(i, j - 1) # 0 \/ j < narg

\* the value of j at which the field loop ends: the first j that fails the test
last_j(i, narg) ==
    LET stops == {j \in 1..MAXARGS : ~more_fields(i, j, narg)}
    IN  CHOOSE j \in stops : \A m \in stops : j <= m

\* the bytes by which iterations lo..hi of the field loop advance q, in order
RECURSIVE field_bytes(_, _, _, _, _)
field_bytes(i, lo, hi, narg, args) ==
    IF hi < lo THEN <<>>
    ELSE IF hi = lo
    THEN LET fl == field(prmAt(i, lo - 1), lo < narg, IF lo < narg THEN args[lo + 1] ELSE "")
         IN  SubSeq(fl.bytes, 1, fl.adv)
    ELSE LET mid == lo + ((hi - lo) \div 2)
         IN  field_bytes(i, lo, mid, narg, args) \o field_bytes(i, mid + 1, hi, narg, args)

\* for (j=1;prm[i][j-1]||j<narg;j++) { switch (prm[i][j-1]) ... }
\* every field is stored at q and q advanced past it; the NUL that sprintf
\* puts after an FS32 field lands on the byte the next store begins at
gen_fields(buff, q, i, narg, args) ==
    LET jend  == last_j(i, narg)
        bytes == field_bytes(i, 1, jend - 1, narg, args)
        nul   == IF jend > 1 /\ prmAt(i, jend - 2) = FS32 THEN <<0>> ELSE <<>>
    IN  [buff |-> WriteBytes(buff, q, bytes \o nul), q |-> q + Len(bytes), j |-> jend]

\* the VALSET key and value appended after the fixed fields; ok is FALSE on
\* the two return-0 paths
gen_valset(st, args) ==
    LET key == args[st.j + 1]
        k   == IF HasCfgPrefix(key) THEN lookup(vcmd, After4(key), 0) ELSE Len(vcmd)
    IN  IF ~HasCfgPrefix(key) \/ k >= Len(vcmd)
        THEN [buff |-> st.buff, q |-> st.q, ok |-> FALSE]
        ELSE LET b1 == WriteBytes(st.buff, st.q, vid[k + 1])
                 fl == field(vprm[k + 1], TRUE, args[st.j + 2])
             IN  [buff |-> WriteBytes(b1, st.q + 4, fl.bytes),
                  q |-> st.q + 4 + fl.adv, ok |-> TRUE]

\* setU2(buff+4,(unsigned short)(n-8))
payload_len_total(n) == n - 6

payload_len(n) == n - 8

\* n=(int)(q-buff)+2; setU2(buff+4,n-8); setcs(buff,n); return n
gen_finish(buff, q) ==
    LET n == q + 2
    IN  [n |-> n, buff |-> setcs(WriteBytes(buff, 4, LEBytes(payload_len(n), 2)), n)]

\* gen_ubx after its strtok loop left args: the return value n and the
\* buffer as it is left
gen_ubx_args(args, buff) ==
    LET narg == Len(args)
    IN  IF narg < 1 \/ ~HasCfgPrefix(args[1]) THEN [n |-> 0, buff |-> buff]
        ELSE LET i == lookup(cmd, After4(args[1]), 0)
             IN  IF i >= Len(cmd) THEN [n |-> 0, buff |-> buff]
                 ELSE LET hdr == WriteBytes(buff, 0, <<UBXSYNC1, UBXSYNC2, UBXCFG, id[i + 1]>>)
                          isvalset == i = 34
                      IN  IF isvalset /\ narg # 7 THEN [n |-> 0, buff |-> hdr]
                          ELSE LET st == gen_fields(hdr, 6, i,
                                                    IF isvalset THEN narg - 2 ELSE narg, args)
                               IN  IF isvalset
                                   THEN LET vs == gen_valset(st, args)
                                        IN  IF vs.ok THEN gen_finish(vs.buff, vs.q)
                                            ELSE [n |-> 0, buff |-> vs.buff]
                                   ELSE gen_finish(st.buff, st.q)

\* gen_ubx(msg,buff): the return value n and the buffer as it is left
gen_ubx(msg, buff) == gen_ubx_args(strtok(msg), buff)

-----------------------------------------------------------------------------
(* The generator feeding the framer: a command text is turned into a frame
   by gen_ubx and the frame is fed, byte by byte, to input_ubx *)

MaxArgs == 2
MaxIdle == 1

Tokens == {"0", "-1", "9600", "70000"}
Heads == {"CFG-" \o cmd[k] : k \in 1..Len(cmd)}
             \cup {"CFG-", "CFG-XYZ", "NAV-PRT", "CFG", "cfg-prt"}
RECURSIVE TokenSeqs(_)
TokenSeqs(n) ==
    IF n = 0 THEN {<<>>}
    ELSE TokenSeqs(n - 1) \cup {Append(s, t) : s \in {u \in TokenSeqs(n - 1) : Len(u) = n - 1}, t \in Tokens}
Presets == {
    <<"CFG-PRT", "1", "0", "0", "0", "9600", "7", "3", "0">>,
    <<"CFG-VALSET", "0", "1", "0", "0", "CFG-RATE-MEAS", "1000">>,
    <<"CFG-VALSET", "0", "1", "0", "0", "CFG-RINV-CHUNK0", "70000">>,
    <<"CFG-VALSET", "0", "1", "0", "0", "CFG-NAVSPG-USRDAT_MAJA", "6378137.0">>,
    <<"CFG-VALSET", "0", "1", "0", "0", "CFG-NAVSPG-USRDAT_DX", "-1">>,
    <<"CFG-VALSET", "0", "1", "0", "0", "CFG-TP-ANT_CABLEDELAY", "-1">>,
    <<"CFG-VALSET", "0", "1", "0", "0", "CFG-NO-SUCH-KEY", "1">>,
    <<"CFG-VALSET", "0", "1", "0", "0", "RATE-MEAS", "1000">>,
    <<"CFG-VALSET", "0", "1", "0", "0", "CFG-RATE-MEAS">>,
    <<"CFG-USB", "1", "2", "0", "0", "70000", "0", "u-blox", "0123456789012345678901234567890123456789">>,
    <<"CFG-DAT", "6378137.0", "298.257223563", "0", "1", "-1", "0", "0", "0", "0">>,
    <<"", "CFG-RATE", "", "", "1000", "1", "", "1", "">>,
    <<"CFG-RXM">> \o [k \in 1..40 |-> "255"],
    <<>> }
\* the commands that are also generated with every choice of up to MaxArgs
\* argument tokens: RATE, CFG, TP and RXM (fields U1, U2, U4, I1, I2)
ArgHeads == {"CFG-" \o cmd[k] : k \in {5, 6, 7, 12}}
Commands == {<<h>> : h \in Heads}
                \cup {<<h>> \o s : h \in ArgHeads, s \in TokenSeqs(MaxArgs)}
                \cup Presets

\* what the caller's buffer holds before the call
CallerBuffs == {<<>>, [k \in 1..12 |-> 255]}

IdleBytes == {0, UBXSYNC1, UBXSYNC2}

InitGen ==
    /\ \E ot \in BOOLEAN : raw = RawInit(ot, Opt0)
    /\ ret = 0 /\ info = NoInfo /\ hist = <<>> /\ tx = <<>> /\ sent = <<>>
    /\ GenIdle

\* bytes that reach the receiver before the frame
FeedIdle ==
    /\ gmsg = <<>> /\ Len(hist) < MaxIdle
    /\ \E data \in IdleBytes, und \in UndWords : Call(data, und, TRUE)
    /\ UNCHANGED <<tx, gmsg, gbuff, gn, gpos, gidle, sent>>

\* the calls of gen_ubx: the command text, the caller's buffer and the result
GenCalls == {<<msg, b, gen_ubx(msg, b)>> : msg \in Commands, b \in CallerBuffs}

\* one call of gen_ubx; the n bytes produced are queued for the receiver
\* and gpos keeps the number of calls made before the frame
Generate ==
    /\ gn = 0 /\ gmsg = <<>> /\ tx = <<>>
    /\ \E c \in GenCalls :
          /\ gmsg' = c[1] /\ gbuff' = c[3].buff /\ gn' = c[3].n
          /\ tx' = [k \in 1..c[3].n |-> ByteAt(c[3].buff, k - 1)]
    /\ gpos' = Len(hist) /\ gidle' = (raw.nbyte = 0)
    /\ UNCHANGED <<raw, ret, info, hist, sent>>

FeedGen ==
    /\ tx # <<>>
    /\ \E und \in UndWords : Call(Head(tx), und, FALSE)
    /\ tx' = Tail(tx)
    /\ UNCHANGED <<gmsg, gbuff, gn, gpos, gidle, sent>>

NextGen == FeedIdle \/ Generate \/ FeedGen

SpecGen == InitGen /\ [][NextGen]_vars

\* the n bytes gen_ubx returned
GenFrame == [k \in 1..gn |-> ByteAt(gbuff, k - 1)]
\* the catalog entry of the command word
GenIndex == lookup(cmd, After4(strtok(gmsg)[1]), 0)

\* C7: whenever gen_ubx returns n > 0, checksum(buff, n) holds: the last two
\* bytes of the frame equal the Fletcher sums over bytes 2..n-3.
C7_GeneratedChecksum ==
    gn > 0 => (checksum(gbuff, gn) /\ SumsMatch(GenFrame))

\* gen_ubx has produced the CFG-VALSET frame for key RATE-MEAS, value 1000
C7_Witness ==
    /\ gn = 18
    /\ GenFrame = <<181, 98, 6, 138, 10, 0, 0, 1, 0, 0, 1, 0, 33, 48, 232, 3,
                    GenFrame[17], GenFrame[18]>>

\* C8: a frame of n > 0 bytes produced by gen_ubx starts with B5 62 06 id,
\* its length field at offset 4 is n-8, and fed to an idle input_ubx every
\* call returns 0, no call before the n-th completes the frame, and the n-th
\* call hands it to the dispatcher, passes the checksum and leaves nbyte = 0.
C8_GeneratedWellFramed ==
    gn > 0 =>
        /\ SubSeq(GenFrame, 1, 4) = <<UBXSYNC1, UBXSYNC2, UBXCFG, id[GenIndex + 1]>>
        /\ GenFrame[5] + 256 * GenFrame[6] = gn - 8
        /\ gidle =>
              \A k \in 1..(gn - Len(tx)) :
                  LET h == hist[gpos + k]
                  IN  /\ h.data = GenFrame[k]
                      /\ h.ret = 0
                      /\ k < gn => (~h.disp /\ h.nbyte1 = (IF k = 1 THEN 0 ELSE k))
                      /\ k = gn => (h.disp /\ h.dec # "none" /\ h.nbyte1 = 0)

\* the frame of CFG-PRT 1 0 0 0 9600 7 3 0 has been fed to an idle receiver
\* that had a 0xB5 in its sync window, and its last byte completed it
C8_Witness ==
    /\ gmsg = <<"CFG-PRT", "1", "0", "0", "0", "9600", "7", "3", "0">>
    /\ gn = 28 /\ tx = <<>> /\ gidle
    /\ gpos = 1 /\ hist[1].data = UBXSYNC1
    /\ Len(hist) = gpos + gn /\ info.disp /\ raw.nbyte = 0

\* the tokens of the command text of the call
GenTokens == SelectSeq(gmsg, LAMBDA w : w # "")

\* the command text is unusable: no token, a first token without "CFG-", a
\* name that is not in the catalog, or a CFG-VALSET that has not exactly 7
\* tokens, or whose 6th token lacks "CFG-" or names no key of the catalog
Unusable ==
    \/ Len(GenTokens) = 0
    \/ ~HasCfgPrefix(GenTokens[1])
    \/ After4(GenTokens[1]) \notin {cmd[k] : k \in 1..Len(cmd)}
    \/ /\ After4(GenTokens[1]) = "VALSET"
       /\ \/ Len(GenTokens) # 7
          \/ ~HasCfgPrefix(GenTokens[6])
          \/ After4(GenTokens[6]) \notin {vcmd[k] : k \in 1..Len(vcmd)}

\* C24: gen_ubx returns 0 exactly when the command is unusable (no token,
\* first token without "CFG-", name not in the catalog, or CFG-VALSET with
\* a token count other than 7, a 6th token without "CFG-" or a key that is
\* not in the VALSET catalog); for every other command it returns n >= 8.
C24_ZeroIffUnusable ==
    /\ gn = 0 <=> Unusable
    /\ gn # 0 => gn >= 8

\* gen_ubx has returned 0 for a CFG-VALSET of 7 tokens whose key is unknown
C24_Witness ==
    /\ gmsg = <<"CFG-VALSET", "0", "1", "0", "0", "CFG-NO-SUCH-KEY", "1">>
    /\ gn = 0

\* the payload of the frame gen_ubx produced
GenPayload == SubSeq(GenFrame, 7, gn - 2)

\* the declared width of a field type
Width(type) ==
    CASE type \in {FU1, FI1}      -> 1
      [] type \in {FU2, FI2}      -> 2
      [] type \in {FU4, FI4, FR4} -> 4
      [] type = FR8               -> 8
      [] type = FS32              -> 32

\* the widths of the first k declared fields of catalog entry i, summed
RECURSIVE WidthSum(_, _)
WidthSum(i, k) == IF k = 0 THEN 0 ELSE WidthSum(i, k - 1) + Width(prm[i + 1][k])

\* the arguments gen_ubx has: the tokens it kept, the command word among them
GenArgs == strtok(gmsg)

\* the payload of a non-VALSET command: its length, the declared fields
\* that have an argument, and the bytes of the arguments past the declared
\* fields; a declared field without argument is zero, a text field without
\* argument is 32 times the byte blank
PayloadAsDeclared(blank) ==
    LET i  == GenIndex
        nf == Len(prm[i + 1])
        narg == Len(GenArgs)
        extra == IF narg - 1 > nf THEN narg - 1 - nf ELSE 0
    IN  /\ Len(GenPayload) = WidthSum(i, nf) + extra
        /\ \A j \in 1..nf :
              SubSeq(GenPayload, WidthSum(i, j - 1) + 1, WidthSum(i, j))
                = IF j < narg
                  THEN SubSeq(field(prm[i + 1][j], TRUE, GenArgs[j + 1]).bytes, 1,
                              Width(prm[i + 1][j]))
                  ELSE IF prm[i + 1][j] = FS32 THEN [k \in 1..32 |-> blank]
                  ELSE Zeros(Width(prm[i + 1][j]))
        /\ \A j \in (nf + 1)..(narg - 1) :
              GenPayload[WidthSum(i, nf) + j - nf] = atoi(GenArgs[j + 1]) % 256

\* C25 as stated: for a non-VALSET command the payload is the declared
\* fields in declared order and width, every declared field without
\* argument emitted as zero, and emission goes on until the field table is
\* exhausted and all arguments are consumed: the payload length is the sum
\* of the declared widths plus one byte for each argument past the fields.
C25_MissingAsZero ==
    (gn > 0 /\ GenIndex # 34) => PayloadAsDeclared(0)

\* C25: for a non-VALSET command the payload is the declared fields in
\* declared order and width, every declared field without argument emitted
\* as zero, or as 32 spaces when it is a 32-character text field, and
\* emission goes on until the field table is exhausted and all arguments
\* are consumed: the payload length is the sum of the declared widths plus
\* one byte for each argument past the declared fields.
C25_PayloadAsDeclared ==
    (gn > 0 /\ GenIndex # 34) => PayloadAsDeclared(32)

\* gen_ubx has produced the frame of a CFG-USB with eight arguments for its
\* nine fields: six integers, two texts, and a text field left without
C25_Witness ==
    /\ Len(gmsg) = 9 /\ gmsg[1] = "CFG-USB" /\ gmsg[8] = "u-blox"
    /\ gn = 116
    /\ SubSeq(GenPayload, 13, 18) = <<117, 45, 98, 108, 111, 120>>
    /\ SubSeq(GenPayload, 77, 108) = [k \in 1..32 |-> 32]

\* the declared width of the value of a VALSET key
ValueWidth(type) == IF type = FU8 THEN 8 ELSE Width(type)

\* C26: for a 7-token CFG-VALSET whose 6th token names a catalog key, the
\* payload is the four one-byte fields of tokens 2-5, the key id in four
\* bytes, least significant first, and the 7th token in the declared type
\* and width (1, 2, 4 or 8 bytes) of the key, for every key.
C26_ValsetPayload ==
    (gn > 0 /\ GenIndex = 34) =>
        LET k    == lookup(vcmd, After4(GenArgs[6]), 0)
            type == vprm[k + 1]
            w    == ValueWidth(type)
        IN  /\ SubSeq(GenPayload, 1, 4) = [j \in 1..4 |-> atoi(GenArgs[j + 1]) % 256]
            /\ SubSeq(GenPayload, 5, 8) = vid[k + 1]
            /\ Len(GenPayload) = 8 + w
            /\ SubSeq(GenPayload, 9, 8 + w)
                 = CASE type = FR4 -> atof4[GenArgs[7]]
                     [] type = FR8 -> atof8[GenArgs[7]]
                     [] OTHER      -> LEBytes(atoi(GenArgs[7]), w)

-----------------------------------------------------------------------------
(* RXM-RAWX frames delivered whole: the sender encodes one measurement for
   GPS 5, signal L1C/A, and every byte of the frame goes through input_ubx *)

MaxFrames == 3

\* the calls input_ubx(raw,bytes[k]) for k = lo..hi, in order, starting from
\* the outcome o of the call before.  The range is halved, and the outcome
\* of the first half is a bound value before the second half starts, only
\* to keep the evaluation shallow
RECURSIVE feed(_, _, _, _, _)
feed(o, bytes, lo, hi, und) ==
    IF hi < lo THEN o
    ELSE IF hi = lo THEN input_ubx(o.raw, bytes[lo], und)
    ELSE LET mid == lo + ((hi - lo) \div 2)
         IN  CHOOSE last \in {feed(first, bytes, mid + 1, hi, und) :
                                 first \in {feed(o, bytes, lo, mid, und)}} : TRUE

\* IEEE-754 bytes of the doubles 1.0 and 20000000.0
One8 == <<0, 0, 0, 0, 0, 0, 240, 63>>
Range8 == <<0, 0, 0, 0, 208, 18, 115, 65>>

\* measurement block of UBX-RXM-RAWX (32 bytes)
RawxBlock(m) ==
    Range8 \o m.cpMes \o Zero4
      \o <<m.gnssId, m.svId, m.sigId, 7, m.lockt % 256, m.lockt \div 256,
           40, 5, m.cpStd, 0, m.trkStat, 0>>

\* payload of UBX-RXM-RAWX: rcvTow, week, leapS, numMeas, recStat, version,
\* reserved, then the blocks
RawxBlocks(ms) ==
    [k \in 1..(32 * Len(ms)) |-> RawxBlock(ms[((k - 1) \div 32) + 1])[((k - 1) % 32) + 1]]
RawxFrame(week, ver, ms) ==
    MkFrame(2, 21, Zero8 \o <<week % 256, week \div 256, 18, Len(ms), 1, ver, 0, 0>>
                     \o RawxBlocks(ms))

Lockts == {0, 1000, 2000}
\* trkStat: bit 0 prValid, bit 1 cpValid, bit 2 halfCyc, bit 3 subHalfCyc
Meas(lockt, tstat, cpstd, cp) ==
    [gnssId |-> 0, svId |-> 5, sigId |-> 0, lockt |-> lockt, cpStd |-> cpstd,
     trkStat |-> tstat, cpMes |-> cp]
Measurements ==
    {Meas(l, t, 0, One8) : l \in Lockts, t \in {7, 15}}
      \cup {Meas(2000, t, 0, One8) : t \in {5, 13}}
      \cup {Meas(2000, 7, 12, One8), Meas(2000, 7, 0, MinusHalf)}
\* the frames the sender may send: week 2200, and one frame with week 0
RawxFrames ==
    {[week |-> 2200, ver |-> 1, ms |-> <<m>>] : m \in Measurements}
      \cup {[week |-> 0, ver |-> 1, ms |-> <<Meas(2000, 7, 0, One8)>>]}

\* -MAX_STD_CP=15 -STD_SLIP=10
OptWide == [Opt0 EXCEPT !.has_max_std_cp = TRUE, !.max_std_cp = 15,
                        !.has_std_slip = TRUE, !.std_slip = 10]

InitRawx ==
    /\ \E opt \in {Opt0, OptWide} : raw = RawInit(FALSE, opt)
    /\ ret = 0 /\ info = NoInfo /\ hist = <<>> /\ tx = <<>> /\ sent = <<>>
    /\ GenIdle

\* the observation the decoder left for GPS 5 in slot 1 (row 0 of obs.data)
ObsRow(r) == RowAt(r.obs.data, 0)

\* one RXM-RAWX frame with one measurement goes through the framer; sent
\* records what was sent and what the decoder emitted for it
DeliverRawx ==
    /\ Len(sent) < MaxFrames
    /\ \E fr \in RawxFrames, und \in UndWords :
          LET f == RawxFrame(fr.week, fr.ver, fr.ms)
              m == fr.ms[1]
          IN  \E o \in {feed([raw |-> raw, ret |-> 0, info |-> NoInfo], f, 1, Len(f), und)} :
                /\ raw' = o.raw /\ ret' = o.ret /\ info' = o.info
                /\ sent' = Append(sent,
                      [lockt |-> m.lockt, halfc |-> Bit(m.trkStat, 3),
                       cpStd |-> m.cpStd, week |-> fr.week, ret |-> o.ret,
                       cpstd_slip |-> IF raw.opt.has_std_slip THEN raw.opt.std_slip
                                      ELSE CPSTD_SLIP,
                       n |-> o.raw.obs.n,
                       phase |-> ~IsZero(ObsRow(o.raw).L[1]),
                       LLI |-> ObsRow(o.raw).LLI[1]])
    /\ UNCHANGED <<hist, tx, gmsg, gbuff, gn, gpos, gidle>>

NextRawx == DeliverRawx

SpecRawx == InitRawx /\ [][NextRawx]_vars

\* frame m of sent was decoded and an observation for GPS 5, slot 1 emitted
Emitted(m) == sent[m].ret = 1 /\ sent[m].n = 1
\* the LLI slip bit (value 0x01) of the observation emitted from frame m
SlipBit(m) == sent[m].LLI % 2
\* frames a..b are a slip-free sequence as C9 describes it
SlipFree(a, b) ==
    /\ \A m \in a..b : Emitted(m) /\ sent[m].phase /\ sent[m].cpStd < sent[m].cpstd_slip
    /\ \A m \in (a + 1)..b :
          sent[m].lockt >= sent[m - 1].lockt /\ sent[m].halfc = sent[m - 1].halfc

\* C9 as stated: if successive RXM-RAWX frames carry, for one (sat, slot),
\* non-decreasing lockt, equal halfc, phase present and cpStd < cpstd_slip,
\* the LLI slip bit is set on no observation emitted for that (sat, slot).
C9_SlipFreeSequence ==
    \A a \in 1..Len(sent), b \in 1..Len(sent) :
        (a <= b /\ SlipFree(a, b)) => \A m \in a..b : SlipBit(m) = 0

\* C9 amended: in such a sequence the LLI slip bit is set on no observation
\* after the first frame of the sequence, provided the lockt of those
\* frames is not zero.
C9_SlipFreeAfterFirst ==
    \A a \in 1..Len(sent), b \in 1..Len(sent) :
        (a <= b /\ SlipFree(a, b)) =>
            \A m \in (a + 1)..b : sent[m].lockt # 0 => SlipBit(m) = 0

\* three frames with half-cycle bit 1 and lockt 1000, 1000, 2000 were decoded
\* and the last two observations carry no slip bit
C9_Witness ==
    /\ Len(sent) = 3 /\ SlipFree(1, 3)
    /\ sent[1].lockt = 1000 /\ sent[2].lockt = 1000 /\ sent[3].lockt = 2000
    /\ sent[1].halfc = 1
    /\ SlipBit(2) = 0 /\ SlipBit(3) = 0

\* C10 as stated: if two successive RXM-RAWX frames carry measurements for
\* the same (sat, slot) whose half-cycle-subtracted bits differ, the
\* observation emitted from the second frame has LLI bit 0x01 set.
C10_HalfcToggleFlagged ==
    \A m \in 2..Len(sent) :
        (Emitted(m - 1) /\ Emitted(m) /\ sent[m].halfc # sent[m - 1].halfc)
            => SlipBit(m) = 1

\* the last frame before m that the decoder took (status 1), 0 when none
PrevTaken(m) ==
    IF \E k \in 1..(m - 1) : sent[k].ret = 1
    THEN CHOOSE k \in 1..(m - 1) : sent[k].ret = 1 /\ \A j \in (k + 1)..(m - 1) : sent[j].ret # 1
    ELSE 0
\* a slip is declared on the measurement of frame m: lock time zero or
\* smaller than the one before, half-cycle bit other than the one before,
\* or cpStd at the slip threshold
Declared(m) ==
    /\ sent[m].ret = 1
    /\ \/ sent[m].lockt = 0
       \/ sent[m].cpStd >= sent[m].cpstd_slip
       \/ sent[m].lockt < (IF PrevTaken(m) = 0 THEN 0 ELSE sent[PrevTaken(m)].lockt)
       \/ sent[m].halfc # (IF PrevTaken(m) = 0 THEN 0 ELSE sent[PrevTaken(m)].halfc)
\* frame m was taken and its measurement has a valid phase
ValidPhase(m) == sent[m].ret = 1 /\ sent[m].phase
\* frame a declared a slip without a valid phase and b is the first later
\* frame with a valid phase
FirstValidAfter(a, b) ==
    /\ a < b /\ Declared(a) /\ ~sent[a].phase /\ ValidPhase(b)
    /\ \A m \in (a + 1)..(b - 1) : ~ValidPhase(m)

\* C34: a slip declared for G05, slot 1 on a measurement whose phase is
\* invalid stays latched in lockflag across frames: the slip bit is set on
\* the first later measurement with a valid phase, that observation clears
\* the latch, and the next measurement, when it is slip-free with a valid
\* phase, has the slip bit clear.
C34_SlipLatched ==
    /\ \A a \in 1..Len(sent) :
          (Declared(a) /\ ~sent[a].phase /\ \A m \in (a + 1)..Len(sent) : ~ValidPhase(m))
              => At(raw.lockflag, 5, 1) > 0
    /\ \A a \in 1..Len(sent), b \in 1..Len(sent) :
          FirstValidAfter(a, b) =>
              /\ SlipBit(b) = 1
              /\ (\A m \in (b + 1)..Len(sent) : sent[m].ret # 1) => At(raw.lockflag, 5, 1) = 0
              /\ \A c \in (b + 1)..Len(sent) :
                    (PrevTaken(c) = b /\ ValidPhase(c) /\ ~Declared(c)) => SlipBit(c) = 0

\* the half-cycle bit changes on a frame without valid phase; the frame
\* after it has a valid phase and the slip bit, the next one has it clear
C34_Witness ==
    /\ Len(sent) = 3 /\ FirstValidAfter(1, 2)
    /\ sent[1].lockt = 2000 /\ sent[1].halfc = 1
    /\ SlipBit(2) = 1 /\ ValidPhase(3) /\ ~Declared(3) /\ SlipBit(3) = 0
    /\ At(raw.lockflag, 5, 1) = 0

-----------------------------------------------------------------------------
(* Specification SpecObs: RXM-RAW and RXM-RAWX frames delivered whole, with
   frames of week 0 and frames shorter than the count they declare *)

MaxObsFrames == 2

\* -STD_SLIP=10
OptSlip10 == [Opt0 EXCEPT !.has_std_slip = TRUE, !.std_slip = 10]

\* satellite block of UBX-RXM-RAW (24 bytes): cpMes, prMes, doMes, sv,
\* mesQI, cno, lli
RawBlock(prn, lli) == One8 \o Range8 \o Zero4 \o <<prn, 7, 40, lli>>

\* UBX-RXM-RAW: iTOW (ms), week, numSV, reserved, then the blocks
RawFrame(tow, week, declared, blocks) ==
    MkFrame(2, 16, tow \o <<week % 256, week \div 256, declared, 0>> \o blocks)

\* UBX-RXM-RAWX declaring more measurements than it carries
RawxFrameDecl(week, declared, ms) ==
    MkFrame(2, 21, Zero8 \o <<week % 256, week \div 256, 18, declared, 1, 1, 0, 0>>
                     \o RawxBlocks(ms))

\* 100000 ms and 101000 ms as the bytes of iTOW
Tow100s == <<160, 134, 1, 0>>
Tow101s == <<136, 138, 1, 0>>

\* what the sender sends: kind, week, the measurement count declared, the
\* cpStd of its measurement and the frame
ObsFrame(kind, week, declared, cpstd, f) ==
    [kind |-> kind, week |-> week, declared |-> declared, cpStd |-> cpstd,
     frame |-> f]
ObsFrames ==
    { ObsFrame("rawx", 2200, 1, c, RawxFrame(2200, 1, <<Meas(2000, 7, c, One8)>>)) :
          c \in {0, 10, 12, 15} }
      \cup
    { ObsFrame("rawx", w, 1, 0, RawxFrame(w, 1, <<Meas(1000, 15, 0, One8)>>)) :
          w \in {0, 2200} }
      \cup
    { ObsFrame("rawx", w, 2, 0, RawxFrameDecl(w, 2, <<Meas(2000, 7, 0, One8)>>)) :
          w \in {0, 2200} }
      \cup
    { ObsFrame("raw", w, 1, 0, RawFrame(tw, w, 1, RawBlock(5, 0))) :
          w \in {0, 2000}, tw \in {Tow100s, Tow101s} }
      \cup
    { ObsFrame("rawx", 2200, 0, 0, MkFrame(2, 21, Zero8 \o <<152, 8>>)),
      ObsFrame("raw", 0, 2, 0, RawFrame(Tow100s, 0, 2, RawBlock(5, 0))),
      ObsFrame("raw", 2000, 1, 0, RawFrame(Tow101s, 2000, 1, RawBlock(5, 1))) }

\* the frame is shorter than the count it declares needs
ShortFrame(fr) ==
    IF fr.kind = "rawx" THEN Len(fr.frame) < 24 + 32 * fr.declared
    ELSE Len(fr.frame) < 12 + 24 * fr.declared

InitObs ==
    /\ \E opt \in {Opt0, OptWide, OptSlip10} : raw = RawInit(FALSE, opt)
    /\ ret = 0 /\ info = NoInfo /\ hist = <<>> /\ tx = <<>> /\ sent = <<>>
    /\ GenIdle

\* one frame goes through the framer; sent records what was sent and what
\* the decoder emitted for GPS 5, slot 1
DeliverObs ==
    /\ Len(sent) < MaxObsFrames
    /\ \E fr \in ObsFrames, und \in UndWords :
          \E o \in {feed([raw |-> raw, ret |-> 0, info |-> NoInfo],
                         fr.frame, 1, Len(fr.frame), und)} :
                /\ raw' = o.raw /\ ret' = o.ret /\ info' = o.info
                /\ sent' = Append(sent,
                      [kind |-> fr.kind, week |-> fr.week, short |-> ShortFrame(fr),
                       cpStd |-> fr.cpStd, ret |-> o.ret,
                       cpstd_slip |-> IF raw.opt.has_std_slip THEN raw.opt.std_slip
                                      ELSE CPSTD_SLIP,
                       n |-> o.raw.obs.n,
                       phase |-> ~IsZero(ObsRow(o.raw).L[1]),
                       LLI |-> ObsRow(o.raw).LLI[1],
                       lockflag |-> At(o.raw.lockflag, 5, 1)])
    /\ UNCHANGED <<hist, tx, gmsg, gbuff, gn, gpos, gidle>>

NextObs == DeliverObs

SpecObs == InitObs /\ [][NextObs]_vars

\* the frame just delivered
Last(s) == s[Len(s)]
\* an RXM-RAWX frame was decoded and its measurement emitted
EmittedRawx(e) == e.kind = "rawx" /\ e.ret = 1 /\ e.n = 1

\* C11 as stated: an RXM-RAWX measurement whose cpStd is at or above the slip
\* threshold (-STD_SLIP, default 15) is emitted with the LLI slip bit set on
\* that same observation.
C11_CpStdSlipFlagged ==
    \A m \in 1..Len(sent) :
        (EmittedRawx(sent[m]) /\ sent[m].cpStd >= sent[m].cpstd_slip)
            => sent[m].LLI % 2 = 1

\* C11 amended: such a measurement is emitted with the slip bit set when its
\* carrier phase is valid; when the phase is invalid the observation carries
\* no slip bit and the slip stays latched in lockflag.
C11_CpStdSlipFlaggedWithPhase ==
    \A m \in 1..Len(sent) :
        (EmittedRawx(sent[m]) /\ sent[m].cpStd >= sent[m].cpstd_slip)
            => IF sent[m].phase THEN sent[m].LLI % 2 = 1
               ELSE sent[m].LLI % 2 = 0 /\ sent[m].lockflag > 0

\* with -STD_SLIP=10 (and -MAX_STD_CP=15) a measurement with cpStd 12
\* followed one without any other reason for a slip, and carries the bit
C11_Witness ==
    /\ Len(sent) = 2
    /\ EmittedRawx(sent[1]) /\ sent[1].cpStd = 0 /\ sent[1].phase
    /\ EmittedRawx(sent[2]) /\ sent[2].cpStd = 12 /\ sent[2].cpstd_slip = 10
    /\ sent[2].phase /\ sent[2].LLI % 2 = 1

\* the step delivers one frame
Delivers == Len(sent') = Len(sent) + 1
\* the step leaves the observation buffer, the epoch and the slip state alone
ObsKept ==
    /\ raw'.obs.n = raw.obs.n /\ raw'.obs.data = raw.obs.data
    /\ raw'.time = raw.time /\ raw'.lockt = raw.lockt
    /\ raw'.lockflag = raw.lockflag /\ raw'.halfc = raw.halfc

\* C12 as stated: an RXM-RAW or RXM-RAWX frame whose week field is 0 returns
\* 0 and leaves obs.n, the observation rows, raw.time, lockt, lockflag and
\* halfc unchanged.
C12_WeekZeroIgnored ==
    [][(Delivers /\ Last(sent').week = 0) => (ret' = 0 /\ ObsKept)]_vars

\* C12 amended: such a frame leaves that state unchanged, and returns 0 when
\* its length covers the count it declares (-1 when it is shorter).
C12_WeekZeroIgnoredWhenComplete ==
    [][(Delivers /\ Last(sent').week = 0)
          => (ObsKept /\ ret' = IF Last(sent').short THEN -1 ELSE 0)]_vars

\* a complete week-0 RXM-RAW frame after a decoded epoch returned 0 and the
\* epoch's observation is still there
C12_Witness ==
    /\ Len(sent) = 2
    /\ sent[1].ret = 1 /\ sent[1].n = 1 /\ sent[1].week # 0
    /\ sent[2].kind = "raw" /\ sent[2].week = 0 /\ ~sent[2].short
    /\ ret = 0 /\ raw.obs.n = 1 /\ ~IsUnset(raw.time)

\* C13: an RXM-RAWX frame whose total length is less than 24+32*numMeas
\* returns -1 and changes neither the observation buffer, raw.time nor the
\* slip state; the length test precedes the week-zero test, so this holds for
\* week 0 as well.
C13_ShortRawxRejected ==
    [][(Delivers /\ Last(sent').kind = "rawx" /\ Last(sent').short)
          => (ret' = -1 /\ ObsKept)]_vars

\* a week-0 RXM-RAWX frame declaring two measurements and carrying one came
\* after a decoded epoch and was rejected with -1
C13_Witness ==
    /\ Len(sent) = 2
    /\ sent[1].kind = "rawx" /\ sent[1].ret = 1 /\ sent[1].n = 1
    /\ sent[2].kind = "rawx" /\ sent[2].short /\ sent[2].week = 0
    /\ sent[2].ret = -1 /\ raw.obs.n = 1

-----------------------------------------------------------------------------
(* Specification SpecNav: one satellite broadcasts its ephemeris cycle after
   cycle (GPS and QZSS subframes 1, 2, 3; Galileo words 2..6, 0, 1), each
   cycle under one issue of data, carried by RXM-SFRB, RXM-SFRBX or
   TRK-SFRBX frames *)

MaxNavFrames == 15

\* -EPHALL, -GALFNAV
OptEphAll == [Opt0 EXCEPT !.ephall = TRUE]
OptGalFnav == [Opt0 EXCEPT !.galfnav = TRUE]

\* the byte sequence of n bytes whose bit k (from 0, most significant first)
\* is the bit of the field <<pos, len, value>> covering it, 0 where none does
FieldBytes(n, fields) ==
    LET bit(k) == IF \E f \in fields : f[1] <= k /\ k < f[1] + f[2]
                  THEN LET f == CHOOSE g \in fields : g[1] <= k /\ k < g[1] + g[2]
                       IN  Bit(f[3], f[1] + f[2] - 1 - k)
                  ELSE 0
    IN  [i \in 1..n |->
            128 * bit(8 * i - 8) + 64 * bit(8 * i - 7) + 32 * bit(8 * i - 6)
              + 16 * bit(8 * i - 5) + 8 * bit(8 * i - 4) + 4 * bit(8 * i - 3)
              + 2 * bit(8 * i - 2) + bit(8 * i - 1)]

\* the 30 data bytes of LNAV subframe sf under issue iod: preamble, id in the
\* HOW, and IODC (subframe 1), IODE and toe (2), IODE (3)
LnavData(sf, iod) ==
    FieldBytes(30, {<<0, 8, 139>>, <<43, 3, sf>>}
                     \cup (IF sf = 1 THEN {<<48, 10, 100>>, <<168, 8, iod>>, <<176, 16, 450>>}
                           ELSE IF sf = 2 THEN {<<48, 8, iod>>, <<216, 16, 450>>}
                           ELSE IF sf = 3 THEN {<<216, 8, iod>>}
                           ELSE {}))

\* ten dwords, least significant byte first, holding the 24-bit words of
\* data in bits 23..0 (shift 0) or in bits 29..6 (shift 6)
RECURSIVE Dwords(_, _, _)
Dwords(data, i, shift) ==
    IF 3 * i >= Len(data) THEN <<>>
    ELSE LET v == (65536 * data[3 * i + 1] + 256 * data[3 * i + 2] + data[3 * i + 3])
                    * Pow2(shift)
         IN  <<v % 256, (v \div 256) % 256, (v \div 65536) % 256, v \div 16777216>>
               \o Dwords(data, i + 1, shift)

\* the bytes of 32-bit words, each word least significant byte first
SwapWords(bytes) ==
    [k \in 1..Len(bytes) |-> bytes[4 * ((k - 1) \div 4) + 4 - ((k - 1) % 4)]]

\* UBX-RXM-SFRB: chn, svid, dwrd[10]
SfrbFrame(prn, dwords) == MkFrame(2, 17, <<0, prn>> \o dwords)
\* UBX-RXM-SFRBX: gnssId, svId, reserved, freqId, numWords, chn, version,
\* reserved, dwrd[]
SfrbxFrame(gnss, sv, frq, dwords) ==
    MkFrame(2, 19, <<gnss, sv, 0, frq, Len(dwords) \div 4, 0, 1, 0>> \o dwords)
\* UBX-TRK-SFRBX: gnssId at 1, svId at 2, freqId at 4, dwrd[] at 13
TrkSfrbxFrame(gnss, sv, frq, dwords) ==
    MkFrame(3, 15, <<0, gnss, sv, 0, frq, 0, 0, 0, 0, 0, 0, 0, 0>> \o dwords)

\* the 128-bit Galileo I/NAV word of type k under issue iod for satellite
\* svid: time field and week (type 0), IODnav (1..4), toe (1), svid and toc (4)
GalWord(k, iod, svid) ==
    FieldBytes(16, {<<0, 6, k>>}
                     \cup (IF k = 0 THEN {<<6, 2, 2>>, <<96, 12, 1100>>}
                           ELSE IF k = 1 THEN {<<6, 10, iod>>, <<16, 14, 700>>}
                           ELSE IF k \in {2, 3} THEN {<<6, 10, iod>>}
                           ELSE IF k = 4 THEN {<<6, 10, iod>>, <<16, 6, svid>>, <<54, 14, 700>>}
                           ELSE {}))

\* the page pair carrying a word: even half (part 0, page 0, 112 bits of the
\* word), odd half (part 1, page 0, the last 16 bits, 64 bits of other data,
\* CRC), each 16 bytes
GalHalves(word) ==
    LET w(k) == getbitu(word, k, 1)
        body == [i \in 1..32 |->
                    LET b(k) == CASE k < 2 -> 0
                                  [] k < 114 -> w(k - 2)
                                  [] k < 128 -> 0
                                  [] k = 128 -> 1
                                  [] k = 129 -> 0
                                  [] k < 146 -> w(112 + k - 130)
                                  [] OTHER -> 0
                    IN  128 * b(8 * i - 8) + 64 * b(8 * i - 7) + 32 * b(8 * i - 6)
                          + 16 * b(8 * i - 5) + 8 * b(8 * i - 4) + 4 * b(8 * i - 3)
                          + 2 * b(8 * i - 2) + b(8 * i - 1)]
        crc  == rtk_crc24q(gal_crc_bits(body))
        c(k) == IF (23 - (k - 210)) \in crc THEN 1 ELSE 0
    IN  [i \in 1..32 |->
            LET b(k) == IF k >= 210 /\ k < 234 THEN c(k) ELSE getbitu(body, k, 1)
            IN  128 * b(8 * i - 8) + 64 * b(8 * i - 7) + 32 * b(8 * i - 6)
                  + 16 * b(8 * i - 5) + 8 * b(8 * i - 4) + 4 * b(8 * i - 3)
                  + 2 * b(8 * i - 2) + b(8 * i - 1)]

\* the issues of data a satellite broadcasts
Issues == {7, 9}

\* what a satellite sends and how the receiver reports it: system, the
\* gnssId and svId of the frames, the satellite number, the frame type
Streams ==
    { [sys |-> "GPS", gnss |-> 0, sv |-> 5, sat |-> 5, via |-> "sfrb"],
      [sys |-> "GPS", gnss |-> 0, sv |-> 5, sat |-> 5, via |-> "sfrbx"],
      [sys |-> "GPS", gnss |-> 0, sv |-> 5, sat |-> 5, via |-> "trk"],
      [sys |-> "QZS", gnss |-> 5, sv |-> 1, sat |-> 90, via |-> "sfrbx"],
      [sys |-> "GAL", gnss |-> 2, sv |-> 11, sat |-> 70, via |-> "sfrbx"],
      [sys |-> "GAL", gnss |-> 2, sv |-> 11, sat |-> 70, via |-> "trk"] }

\* the parts of one cycle, in the order sent
Cycle(s) == IF s.sys = "GAL" THEN <<2, 3, 4, 5, 6, 0, 1>> ELSE <<1, 2, 3>>

\* the dwords carrying part k under issue iod; a Galileo page pair is
\* followed by one more word
PartWords(s, k, iod) ==
    IF s.sys = "GAL"
    THEN SwapWords(GalHalves(GalWord(k, iod, s.sv))) \o <<0, 0, 0, 0>>
    ELSE Dwords(LnavData(k, iod), 0, IF s.via = "sfrb" THEN 0 ELSE 6)

PartFrame(s, k, iod) ==
    CASE s.via = "sfrb"  -> SfrbFrame(s.sv, PartWords(s, k, iod))
      [] s.via = "sfrbx" -> SfrbxFrame(s.gnss, s.sv, 0, PartWords(s, k, iod))
      [] s.via = "trk"   -> TrkSfrbxFrame(s.gnss, s.sv, 0, PartWords(s, k, iod))

\* tx is the sender: its stream, the index of the next part in the cycle and
\* the issue of the cycle being sent
InitNav ==
    /\ \E opt \in {Opt0, OptEphAll, OptGalFnav} : raw = RawInit(FALSE, opt)
    /\ \E s \in Streams, iod \in Issues : tx = [stream |-> s, pos |-> 1, iod |-> iod]
    /\ ret = 0 /\ info = NoInfo /\ hist = <<>> /\ sent = <<>>
    /\ GenIdle

\* the next part of the cycle goes through the framer; after the last part
\* the satellite keeps its issue of data or changes it
DeliverPart ==
    /\ Len(sent) < MaxNavFrames
    /\ \E und \in UndWords :
          \E f \in {PartFrame(tx.stream, Cycle(tx.stream)[tx.pos], tx.iod)} :
             \E o \in {feed([raw |-> raw, ret |-> 0, info |-> NoInfo], f, 1, Len(f), und)} :
                /\ raw' = o.raw /\ ret' = o.ret /\ info' = o.info
                /\ sent' = Append(sent, [part |-> Cycle(tx.stream)[tx.pos],
                                         iod |-> tx.iod, ret |-> o.ret,
                                         last |-> tx.pos = Len(Cycle(tx.stream))])
    /\ IF tx.pos = Len(Cycle(tx.stream))
       THEN \E iod \in Issues : tx' = [tx EXCEPT !.pos = 1, !.iod = iod]
       ELSE tx' = [tx EXCEPT !.pos = tx.pos + 1]
    /\ UNCHANGED <<hist, gmsg, gbuff, gn, gpos, gidle>>

NextNav == DeliverPart

SpecNav == InitNav /\ [][NextNav]_vars

\* the ephemeris stored for the sender's satellite is the one of the cycle
\* being sent
StoredIsSent ==
    /\ EphAt(raw.nav, tx.stream.sat).sat = tx.stream.sat
    /\ EphAt(raw.nav, tx.stream.sat).iode = tx.iod
    /\ EphAt(raw.nav, tx.stream.sat).iodc = tx.iod

\* C14: replaying a GPS/QZSS LNAV or Galileo I/NAV ephemeris identical to the
\* one stored for the satellite returns 0 and leaves nav.eph[sat] and ephsat
\* unchanged; with -EPHALL the replay returns 2 (on the frame completing it)
\* and the ephemeris is stored again.
C14_ReplayUnchanged ==
    [][(Delivers /\ StoredIsSent)
          => IF raw.opt.ephall /\ Last(sent').last
             THEN /\ ret' = 2
                  /\ EphAt(raw'.nav, tx.stream.sat) = EphAt(raw.nav, tx.stream.sat)
                  /\ raw'.ephsat = tx.stream.sat
             ELSE /\ ret' = 0
                  /\ raw'.nav.eph = raw.nav.eph
                  /\ raw'.ephsat = raw.ephsat]_vars

\* a Galileo satellite sent its seven words twice under one issue of data:
\* the first cycle stored the ephemeris, the second returned 0 throughout
C14_Witness ==
    /\ Len(sent) = 14 /\ tx.stream.sys = "GAL" /\ ~raw.opt.ephall
    /\ sent[7].ret = 2
    /\ \A k \in 8..14 : sent[k].iod = sent[7].iod /\ sent[k].ret = 0
    /\ raw.ephsat = 70 /\ EphAt(raw.nav, 70).iode = sent[7].iod

\* the step delivers a Galileo I/NAV frame to a receiver run with -GALFNAV
GalFnavStep == Delivers /\ raw.opt.galfnav /\ tx.stream.sys = "GAL"

\* C17 as stated: with -GALFNAV no Galileo I/NAV frame (RXM-SFRBX or
\* TRK-SFRBX) is consumed: the status is never 2 and nav.eph, ephsat and
\* subfrm[sat] are never modified.
C17_GalFnavNothingConsumed ==
    [][GalFnavStep
          => /\ ret' # 2
             /\ raw'.nav.eph = raw.nav.eph /\ raw'.ephsat = raw.ephsat
             /\ raw'.subfrm = raw.subfrm]_vars

\* C17 amended: with -GALFNAV the status of a Galileo I/NAV frame is never 2
\* and nav.eph and ephsat are never modified (the pages are still collected
\* in subfrm[sat]).
C17_GalFnavNoEphemeris ==
    [][GalFnavStep
          => /\ ret' # 2
             /\ raw'.nav.eph = raw.nav.eph /\ raw'.ephsat = raw.ephsat]_vars

\* under -GALFNAV all seven words of a Galileo satellite arrived, the mask at
\* offset 112 is complete, and no ephemeris was stored
C17_Witness ==
    /\ raw.opt.galfnav /\ tx.stream.sys = "GAL" /\ Len(sent) = 7
    /\ At(raw.subfrm, 70, 112) = 127
    /\ ret = 0 /\ raw.ephsat = 0 /\ EphAt(raw.nav, 70) = Eph0

-----------------------------------------------------------------------------
(* Specification SpecGal: a Galileo satellite sends its words; among them the
   receiver is handed a page pair in which one bit of the CRC-protected
   region arrived flipped *)

MaxGalFrames == 4
MaxFlipped == 1

\* the CRC runs over bits 0..113 of the even half and bits 0..81 of the odd
\* half: 196 bits
CrcRegion == 196

\* position in the 32 bytes of the page pair of bit f of the region
RegionBit(f) == IF f < 114 THEN f ELSE 128 + (f - 114)

\* the bytes with bit pos (from 0, most significant first) flipped
FlipBit(bytes, pos) ==
    [bytes EXCEPT ![(pos \div 8) + 1] =
        IF Bit(bytes[(pos \div 8) + 1], 7 - (pos % 8)) = 1
        THEN bytes[(pos \div 8) + 1] - Pow2(7 - (pos % 8))
        ELSE bytes[(pos \div 8) + 1] + Pow2(7 - (pos % 8))]

\* word 4 of E11 under issue 7 with bit f of the region flipped after the
\* CRC was computed, as an RXM-SFRBX frame
FlippedFrame(f) ==
    SfrbxFrame(2, 11, 0,
               SwapWords(FlipBit(GalHalves(GalWord(4, 7, 11)), RegionBit(f)))
                 \o <<0, 0, 0, 0>>)

GalStream == [sys |-> "GAL", gnss |-> 2, sv |-> 11, sat |-> 70, via |-> "sfrbx"]

\* tx is the sender: the flipped bit of the damaged page pair and the index
\* of the next word of the cycle
InitGal ==
    /\ raw = RawInit(FALSE, Opt0)
    /\ \E f \in 0..(CrcRegion - 1) : tx = [bit |-> f, pos |-> 1, flipped |-> 0]
    /\ ret = 0 /\ info = NoInfo /\ hist = <<>> /\ sent = <<>>
    /\ GenIdle

DeliverWord ==
    /\ Len(sent) < MaxGalFrames
    /\ \E f \in {PartFrame(GalStream, Cycle(GalStream)[tx.pos], 7)} :
          \E o \in {feed([raw |-> raw, ret |-> 0, info |-> NoInfo], f, 1, Len(f), 0)} :
             /\ raw' = o.raw /\ ret' = o.ret /\ info' = o.info
             /\ sent' = Append(sent, [flipped |-> FALSE, ret |-> o.ret])
    /\ tx' = [tx EXCEPT !.pos = (tx.pos % Len(Cycle(GalStream))) + 1]
    /\ UNCHANGED <<hist, gmsg, gbuff, gn, gpos, gidle>>

DeliverFlipped ==
    /\ Len(sent) < MaxGalFrames
    /\ tx.flipped < MaxFlipped
    /\ \E f \in {FlippedFrame(tx.bit)} :
          \E o \in {feed([raw |-> raw, ret |-> 0, info |-> NoInfo], f, 1, Len(f), 0)} :
             /\ raw' = o.raw /\ ret' = o.ret /\ info' = o.info
             /\ sent' = Append(sent, [flipped |-> TRUE, ret |-> o.ret])
    /\ tx' = [tx EXCEPT !.flipped = tx.flipped + 1]
    /\ UNCHANGED <<hist, gmsg, gbuff, gn, gpos, gidle>>

NextGal == DeliverWord \/ DeliverFlipped

SpecGal == InitGal /\ [][NextGal]_vars

\* the step delivers the damaged page pair
FlippedStep == Delivers /\ Last(sent').flipped
\* the step leaves the page buffer and the ephemerides alone
NavKept ==
    /\ raw'.subfrm = raw.subfrm
    /\ raw'.nav.eph = raw.nav.eph /\ raw'.ephsat = raw.ephsat

\* C16 as stated: a Galileo I/NAV page pair in which any single bit of the
\* 196-bit CRC-protected region has been flipped is rejected: the frame
\* returns -1 and subfrm[sat] (with the word mask at offset 112), nav.eph and
\* ephsat are unchanged.
C16_FlippedBitRejected ==
    [][FlippedStep => (ret' = -1 /\ NavKept)]_vars

\* C16 amended: such a page pair leaves subfrm[sat], nav.eph and ephsat
\* unchanged; the frame returns -1, except that it returns 0 when the flipped
\* bit is the page-type bit of the even or of the odd half, which makes the
\* pair an alert page.
C16_FlippedBitNotConsumed ==
    [][FlippedStep
          => /\ NavKept
             /\ ret' = IF RegionBit(tx.bit) \in {1, 129} THEN 0 ELSE -1]_vars

\* after three good words the page pair with bit 100 flipped was rejected and
\* the three words are still marked in the mask
C16_Witness ==
    /\ Len(sent) = 4 /\ tx.bit = 100
    /\ \A k \in 1..3 : ~sent[k].flipped /\ sent[k].ret = 0
    /\ sent[4].flipped /\ sent[4].ret = -1
    /\ At(raw.subfrm, 70, 112) = 28

-----------------------------------------------------------------------------
(* Specification SpecLnav: a GPS or QZSS satellite whose subframes reach the
   receiver in any order, together with frames that are not LNAV subframes:
   a CNAV message, a frame cut short, a subframe id of 0 *)

MaxLnavFrames == 4

LnavStreams == {s \in Streams : s.sys # "GAL" /\ s.via # "trk"}

\* what is sent: an LNAV subframe (id, issue of data), or the dwords of
\* subframe 3 with the CNAV preamble in the top byte of the first, or those
\* of subframe 3 without the last dword, or a subframe with id 0
LnavKinds ==
    { [kind |-> "lnav", id |-> 1, iod |-> 7], [kind |-> "lnav", id |-> 2, iod |-> 7],
      [kind |-> "lnav", id |-> 2, iod |-> 9], [kind |-> "lnav", id |-> 3, iod |-> 7],
      [kind |-> "lnav", id |-> 4, iod |-> 7], [kind |-> "lnav", id |-> 5, iod |-> 7],
      [kind |-> "cnav", id |-> 3, iod |-> 7], [kind |-> "short", id |-> 3, iod |-> 7],
      [kind |-> "lnav", id |-> 0, iod |-> 7] }

LnavWords(s, d) ==
    LET w == Dwords(LnavData(d.id, d.iod), 0, IF s.via = "sfrb" THEN 0 ELSE 6)
    IN  CASE d.kind = "cnav"  -> [w EXCEPT ![4] = PREAMB_CNAV]
          [] d.kind = "short" -> SubSeq(w, 1, 36)
          [] OTHER -> w

LnavFrame(s, d) ==
    IF s.via = "sfrb" THEN SfrbFrame(s.sv, LnavWords(s, d))
    ELSE SfrbxFrame(s.gnss, s.sv, 0, LnavWords(s, d))

\* tx is the sender: its stream, the number of frames sent and the last one
InitLnav ==
    /\ raw = RawInit(FALSE, Opt0)
    /\ \E s \in LnavStreams :
          tx = [stream |-> s, n |-> 0, last |-> [kind |-> "none", id |-> 0, iod |-> 0]]
    /\ ret = 0 /\ info = NoInfo /\ hist = <<>> /\ sent = <<>>
    /\ GenIdle

DeliverLnav ==
    /\ tx.n < MaxLnavFrames
    /\ \E d \in LnavKinds, und \in UndWords :
          \E f \in {LnavFrame(tx.stream, d)} :
             \E o \in {feed([raw |-> raw, ret |-> 0, info |-> NoInfo], f, 1, Len(f), und)} :
                /\ raw' = o.raw /\ ret' = o.ret /\ info' = o.info
                /\ tx' = [tx EXCEPT !.n = tx.n + 1, !.last = d]
    /\ UNCHANGED <<hist, sent, gmsg, gbuff, gn, gpos, gidle>>

NextLnav == DeliverLnav

SpecLnav == InitLnav /\ [][NextLnav]_vars

\* subframes 1, 2 and 3 held for the satellite carry their ids and one issue
\* of data
Holds123(sub, sat) ==
    /\ \A k \in 1..3 : getbitu(SubBytes(sub, sat, 30 * (k - 1), 30), 43, 3) = k
    /\ getbitu(SubBytes(sub, sat, 60, 30), 216, 8) = getbitu(SubBytes(sub, sat, 30, 30), 48, 8)
    /\ getbitu(SubBytes(sub, sat, 60, 30), 216, 8) = getbitu(SubBytes(sub, sat, 0, 30), 168, 8)

\* C19: for GPS/QZSS LNAV frames the status is determined by the subframe
\* id: ids 1 and 2 return 0, id 3 returns 2 or 0, id 4 returns 9, id 5
\* returns 0; status 2 is only produced by a frame carrying subframe 3, and
\* only if subframes 1, 2 and 3 in subfrm[sat] all decode.
C19_StatusBySubframe ==
    [][tx'.n = tx.n + 1
          => /\ (tx'.last.kind = "lnav" /\ tx'.last.id \in {1, 2, 5}) => ret' = 0
             /\ (tx'.last.kind = "lnav" /\ tx'.last.id = 3) => ret' \in {0, 2}
             /\ (tx'.last.kind = "lnav" /\ tx'.last.id = 4) => ret' = 9
             /\ ret' = 2 => /\ tx'.last.id = 3
                            /\ Holds123(raw'.subfrm, tx.stream.sat)]_vars

\* subframes 2 (issue 9), 1, 2 (issue 7) and 3 arrived: the first three
\* returned 0, subframe 3 returned 2 and the ephemeris of issue 7 is stored
C19_Witness ==
    /\ tx.n = 4 /\ tx.last.kind = "lnav" /\ tx.last.id = 3 /\ ret = 2
    /\ Holds123(raw.subfrm, tx.stream.sat)
    /\ EphAt(raw.nav, tx.stream.sat).iode = 7
    /\ raw.ephsat = tx.stream.sat

-----------------------------------------------------------------------------
(* Specification SpecGlo: GLONASS strings of satellite R03 under two frame
   ids, good and damaged, in any order *)

MaxGloFrames == 3

\* the 16 bytes of a string: string number m, eight data bits, the check
\* bits of the Hamming code at bits 77..84, the frame id in bytes 12-13
GloData(m, fill, kx) == FieldBytes(11, {<<1, 4, m>>, <<5, 8, fill>>, <<77, 8, kx>>})
GloString(m, fill, fid) ==
    LET kx == CHOOSE c \in 0..255 :
                  \A i \in 1..8 : glo_cs(GloData(m, fill, c), i) = 0
    IN  GloData(m, fill, kx) \o <<0>> \o fid \o <<0, 0>>

\* what is sent: string m under frame id fid, sound or with two data bits
\* flipped; string number 0 does not occur in a frame
GloKinds ==
    { [m |-> m, fid |-> fid, valid |-> TRUE,
       bytes |-> GloString(m, 16 * fid[2] + m, fid)] :
          m \in {1, 2, 4}, fid \in {<<0, 1>>, <<0, 2>>} }
      \cup
    { [m |-> 5, fid |-> <<0, 2>>, valid |-> TRUE,
       bytes |-> GloString(5, 37, <<0, 2>>)] }
      \cup
    { [m |-> 2, fid |-> <<0, 2>>, valid |-> FALSE,
       bytes |-> FlipBit(FlipBit(GloString(2, 34, <<0, 2>>), 20), 41)],
      [m |-> 0, fid |-> <<0, 2>>, valid |-> FALSE,
       bytes |-> GloString(0, 32, <<0, 2>>)] }

\* UBX-RXM-SFRBX of R03 on frequency slot 1
GloFrame(d) == SfrbxFrame(6, 3, 8, SwapWords(d.bytes))

InitGlo ==
    /\ raw = RawInit(FALSE, Opt0)
    /\ ret = 0 /\ info = NoInfo /\ hist = <<>> /\ tx = <<>> /\ sent = <<>>
    /\ GenIdle

DeliverString ==
    /\ Len(sent) < MaxGloFrames
    /\ \E d \in GloKinds :
          \E f \in {GloFrame(d)} :
             \E o \in {feed([raw |-> raw, ret |-> 0, info |-> NoInfo], f, 1, Len(f), 0)} :
                /\ raw' = o.raw /\ ret' = o.ret /\ info' = o.info
                /\ sent' = Append(sent, [m |-> d.m, fid |-> d.fid, valid |-> d.valid,
                                         bytes |-> SubSeq(d.bytes, 1, 10),
                                         ret |-> o.ret])
    /\ UNCHANGED <<hist, tx, gmsg, gbuff, gn, gpos, gidle>>

NextGlo == DeliverString

SpecGlo == InitGlo /\ [][NextGlo]_vars

\* satellite number of R03
GloSat == 35
\* the saved frame id and the string slots 1..4
SavedFid == SubBytes(raw.subfrm, GloSat, 150, 2)
Slot(k) == SubBytes(raw.subfrm, GloSat, 10 * (k - 1), 10)
\* the sound strings sent so far
Sound == {i \in 1..Len(sent) : sent[i].valid}

\* C18: after any accepted GLONASS string the saved frame id at
\* subfrm[sat][150..151] equals bytes 12-13 of that string; each of the
\* slots 1-4 is all zero or holds a string received while the saved frame id
\* was in effect; string 1 with a new frame id leaves slots 2-4 zeroed.
C18_FrameIdLatched ==
    /\ \A i \in Sound : sent[i].ret # -1
    /\ Sound # {} => SavedFid = sent[CHOOSE i \in Sound : \A j \in Sound : j <= i].fid
    /\ \A k \in 1..4 :
          \/ Slot(k) = Zeros(10)
          \/ \E i \in Sound :
                /\ sent[i].m = k /\ sent[i].bytes = Slot(k)
                /\ \A j \in Sound : j >= i => sent[j].fid = SavedFid
    /\ \A i \in Sound :
          (/\ sent[i].m = 1
            /\ (\A n \in Sound : n <= i)
            /\ (\E n \in Sound : /\ n < i /\ sent[n].fid # sent[i].fid
                                  /\ \A q \in Sound : q < i => q <= n))
             => \A k \in 2..4 : Slot(k) = Zeros(10)

\* strings 2 and 4 arrived under one frame id, then string 1 under another:
\* the new id is saved, slot 1 holds string 1 and slots 2-4 are zero
C18_Witness ==
    /\ Len(sent) = 3 /\ Sound = {1, 2, 3}
    /\ sent[1].m = 2 /\ sent[2].m = 4 /\ sent[1].fid = sent[2].fid
    /\ sent[3].m = 1 /\ sent[3].fid # sent[2].fid
    /\ SavedFid = sent[3].fid /\ Slot(1) = sent[3].bytes
    /\ \A k \in 2..4 : Slot(k) = Zeros(10)

-----------------------------------------------------------------------------
(* Specification SpecBds: a BeiDou satellite, IGSO/MEO or GEO, broadcasts its
   subframes or pages in order, with stray frames in between *)

MaxBdsFrames == 11
MaxStray == 1

\* the 38 bytes of a subframe as decode_cnav lays it out: the subframe id,
\* then for a GEO satellite the page number with the issue of data in pages
\* 1 and 2, for an IGSO/MEO satellite the issue of data in subframe 1
BdsData(geo, sf, pgn, iod) ==
    FieldBytes(38, {<<15, 3, sf>>}
                     \cup (IF geo
                           THEN {<<42, 4, pgn>>}
                                  \cup (IF pgn \in {1, 2} THEN {<<47, 5, iod>>} ELSE {})
                           ELSE IF sf = 1 THEN {<<43, 5, iod>>, <<287, 5, iod>>}
                           ELSE {}))

\* ten dwords, least significant byte first, holding the 30-bit words of
\* data in bits 29..0
RECURSIVE BdsDwords(_, _)
BdsDwords(data, i) ==
    IF i >= 10 THEN <<>>
    ELSE LET v == getbitu(data, 30 * i, 30)
         IN  <<v % 256, (v \div 256) % 256, (v \div 65536) % 256, v \div 16777216>>
               \o BdsDwords(data, i + 1)

\* C10 is an IGSO/MEO satellite, C03 and C59 are GEO satellites
BdsStreams ==
    { [sv |-> 10, sat |-> 106, geo |-> FALSE],
      [sv |-> 3,  sat |-> 99,  geo |-> TRUE],
      [sv |-> 59, sat |-> 155, geo |-> TRUE] }

\* what is broadcast in order: subframes 1..5, or pages 1..10 of subframe 1
BdsCycle(s) ==
    IF s.geo THEN [k \in 1..10 |-> [id |-> 1, pgn |-> k, short |-> FALSE]]
    ELSE [k \in 1..5 |-> [id |-> k, pgn |-> 0, short |-> FALSE]]

\* stray frames: ids 0 and 6, subframes 2, 3 and 5 that carry page number
\* 10, pages 0 and 11 of subframe 1, subframe 3 without its last dword
BdsStrays ==
    { [id |-> 0, pgn |-> 10, short |-> FALSE], [id |-> 6, pgn |-> 1, short |-> FALSE],
      [id |-> 2, pgn |-> 10, short |-> FALSE], [id |-> 3, pgn |-> 10, short |-> FALSE],
      [id |-> 5, pgn |-> 10, short |-> FALSE], [id |-> 1, pgn |-> 0, short |-> FALSE],
      [id |-> 1, pgn |-> 11, short |-> FALSE], [id |-> 3, pgn |-> 10, short |-> TRUE] }

BdsIod == 7

\* UBX-RXM-SFRBX of the satellite carrying d
BdsFrame(s, d) ==
    LET w == BdsDwords(BdsData(s.geo \/ d.pgn # 0, d.id, d.pgn, BdsIod), 0)
    IN  SfrbxFrame(3, s.sv, 0, IF d.short THEN SubSeq(w, 1, 36) ELSE w)

NoBds == [id |-> -1, pgn |-> -1, short |-> FALSE]

\* tx is the sender: its satellite, its place in the cycle, the frames and
\* the stray frames sent, the last frame and the last stray frame
InitBds ==
    /\ raw = RawInit(FALSE, Opt0)
    /\ \E s \in BdsStreams :
          tx = [stream |-> s, pos |-> 0, n |-> 0, strays |-> 0,
                last |-> NoBds, stray |-> NoBds]
    /\ ret = 0 /\ info = NoInfo /\ hist = <<>> /\ sent = <<>>
    /\ GenIdle

DeliverBds(d) ==
    \E f \in {BdsFrame(tx.stream, d)} :
       \E o \in {feed([raw |-> raw, ret |-> 0, info |-> NoInfo], f, 1, Len(f), 0)} :
          /\ raw' = o.raw /\ ret' = o.ret /\ info' = o.info
          /\ UNCHANGED <<hist, sent, gmsg, gbuff, gn, gpos, gidle>>

DeliverPage ==
    /\ tx.n < MaxBdsFrames
    /\ \E d \in {BdsCycle(tx.stream)[tx.pos + 1]} :
          /\ DeliverBds(d)
          /\ tx' = [tx EXCEPT !.n = tx.n + 1, !.last = d,
                              !.pos = (tx.pos + 1) % Len(BdsCycle(tx.stream))]

DeliverStray ==
    /\ tx.n < MaxBdsFrames /\ tx.strays < MaxStray
    /\ \E d \in BdsStrays :
          /\ DeliverBds(d)
          /\ tx' = [tx EXCEPT !.n = tx.n + 1, !.last = d, !.stray = d,
                              !.strays = tx.strays + 1]

NextBds == DeliverPage \/ DeliverStray

SpecBds == InitBds /\ [][NextBds]_vars

\* the bytes of subfrm[sat] outside the 38-byte slot at off are the same in
\* a and b
SameOutside(a, b, sat, off) ==
    \A k \in 0..379 : (k < off \/ k >= off + 38) => At(a, sat, k) = At(b, sat, k)

\* C20: for BeiDou frames status 2 is produced only by subframe id 3 of an
\* IGSO/MEO satellite (PRN 6..58) or by subframe id 1 page 10 of a GEO
\* satellite (PRN <= 5 or >= 59); GEO frames that carry a whole subframe
\* with id 2..5 return 0 and leave subfrm[sat] unchanged; a GEO page is
\* stored at slot (pgn-1)*38 only when pgn is in 1..10.
C20_BdsStatus ==
    [][tx'.n = tx.n + 1
          => LET d   == tx'.last
                 geo == tx.stream.geo
                 sat == tx.stream.sat
             IN  /\ ret' = 2 => \/ ~geo /\ d.id = 3 /\ tx.stream.sv \in 6..58
                                \/ geo /\ d.id = 1 /\ d.pgn = 10
                                     /\ (tx.stream.sv <= 5 \/ tx.stream.sv >= 59)
                 /\ (geo /\ d.id \in 2..5 /\ ~d.short)
                       => ret' = 0 /\ raw'.subfrm = raw.subfrm
                 /\ (geo /\ raw'.subfrm # raw.subfrm)
                       => /\ d.id = 1 /\ d.pgn \in 1..10
                          /\ SameOutside(raw'.subfrm, raw.subfrm, sat, (d.pgn - 1) * 38)
                          /\ SubBytes(raw'.subfrm, sat, (d.pgn - 1) * 38, 38)
                                = BdsData(TRUE, 1, d.pgn, BdsIod)
                 /\ (geo /\ d.id = 1 /\ d.pgn \in 1..10 /\ ~d.short)
                       => SubBytes(raw'.subfrm, sat, (d.pgn - 1) * 38, 38)
                             = BdsData(TRUE, 1, d.pgn, BdsIod)]_vars

\* pages 1..10 of the GEO satellite C59 arrived with a subframe 2 carrying
\* page number 10 in between: page 10 returned 2 and the ephemeris is stored
C20_Witness ==
    /\ tx.stream.sv = 59 /\ tx.n = 11
    /\ tx.stray = [id |-> 2, pgn |-> 10, short |-> FALSE]
    /\ tx.last = [id |-> 1, pgn |-> 10, short |-> FALSE]
    /\ ret = 2 /\ raw.ephsat = 155
    /\ EphAt(raw.nav, 155).iode = BdsIod

-----------------------------------------------------------------------------
(* Specification SpecTrk: frames that carry observations, with few and with
   many channels, after an epoch has been set *)

MaxTrkFrames == 3

\* a channel of UBX-TRK-MEAS (56 bytes): qi at 1, gnssId at 4, svId at 5,
\* frequency at 7, tracking status at 8, lock counts at 16 and 17, snr at
\* 20, transmission time at 24, adr at 32, doppler at 40
TrkChan(qi, gnss, sv, flag, tsms) ==
    <<0, qi, 0, 0, gnss, sv, 0, 7, flag, 0, 0, 0, 0, 0, 0, 0, 10, 10, 0, 0, 0, 40, 0, 0>>
      \o <<0, 0, 0, 0, tsms % 256, tsms \div 256, 0, 0>>
      \o <<0, 0, 0, 0, 1, 0, 0, 0>> \o Zeros(16)

\* n times the block
Repeat(block, n) == [k \in 1..(n * Len(block)) |-> block[((k - 1) % Len(block)) + 1]]

\* UBX-TRK-MEAS: the channel count at 2, the channels from 104 on
TrkMeasFrame(chans) ==
    MkFrame(3, 16, <<0, 0, Len(chans) \div 56>> \o Zeros(101) \o chans)

\* a block of UBX-TRK-D5 of type 3 (56 bytes): transmission time at 0, adr
\* at 8, doppler at 16, snr at 32, prn at 34, qi at 41, tracking status at 54
TrkD5Block(qi, prn, flag, tsms) ==
    <<0, 0, 0, 0, tsms % 256, tsms \div 256, 0, 0>> \o <<0, 0, 0, 0, 1, 0, 0, 0>>
      \o Zeros(16) \o <<0, 40, prn, 0, 0, 0, 0, 0, 0, qi>> \o Zeros(12) \o <<flag, 0>>

\* UBX-TRK-D5: the type at 0, the blocks from 80 on
TrkD5Frame(blocks) == MkFrame(3, 10, <<3>> \o Zeros(79) \o blocks)

\* channels in code and carrier lock of G05 (tracking status: phase lock,
\* half cycle valid), a channel in code lock only, and their TRK-D5 likes
LockedChan   == TrkChan(7, 0, 5, 160, 70)
CodeOnlyChan == TrkChan(4, 0, 7, 0, 70)
LockedBlock   == TrkD5Block(7, 5, 8, 70)
CodeOnlyBlock == TrkD5Block(4, 7, 0, 70)

\* MAXOBS+1 measurements of RXM-RAWX, each of another satellite: G01..G32,
\* E01..E30 and R01..
ManyMeas ==
    [k \in 1..(MAXOBS + 1) |->
        [Meas(0, 7, 1, One8) EXCEPT
            !.gnssId = IF k <= 32 THEN 0 ELSE IF k <= 62 THEN 2 ELSE 6,
            !.svId   = IF k <= 32 THEN k ELSE IF k <= 62 THEN k - 32 ELSE k - 62]]

\* the frames of this specification, by name: RXM-RAWX of week 2200 with one
\* measurement, tracking frames with two channels or blocks, and each kind
\* of frame with MAXOBS+1 measurements, channels or blocks
TrkFrames ==
    [rawx   |-> RawxFrame(2200, 1, <<Meas(0, 7, 1, One8)>>),
     rawxN  |-> RawxFrame(2200, 1, ManyMeas),
     rawN   |-> RawFrame(Tow100s, 2200, MAXOBS + 1, Repeat(RawBlock(5, 0), MAXOBS + 1)),
     meas2  |-> TrkMeasFrame(CodeOnlyChan \o LockedChan),
     measN  |-> TrkMeasFrame(Repeat(LockedChan, MAXOBS + 1)),
     d5two  |-> TrkD5Frame(LockedBlock \o CodeOnlyBlock),
     d5N    |-> TrkD5Frame(Repeat(LockedBlock, MAXOBS + 1))]

InitTrk ==
    /\ raw = RawInit(FALSE, Opt0)
    /\ ret = 0 /\ info = NoInfo /\ hist = <<>> /\ tx = <<>> /\ sent = <<>>
    /\ GenIdle

DeliverTrk ==
    /\ Len(sent) < MaxTrkFrames
    /\ \E k \in DOMAIN TrkFrames :
          \E f \in {TrkFrames[k]} :
             \E o \in {feed([raw |-> raw, ret |-> 0, info |-> NoInfo], f, 1, Len(f), 0)} :
                /\ raw' = o.raw /\ ret' = o.ret /\ info' = o.info
                /\ sent' = Append(sent, k)
    /\ UNCHANGED <<hist, tx, gmsg, gbuff, gn, gpos, gidle>>

NextTrk == DeliverTrk

SpecTrk == InitTrk /\ [][NextTrk]_vars

\* C15: after any sequence of observation-carrying frames (RXM-RAW,
\* RXM-RAWX, TRK-MEAS, TRK-D5), obs.n <= MAXOBS and no observation row with
\* index >= MAXOBS has been written, whatever count the frame declares.
C15_ObsWithinMaxobs ==
    /\ raw.obs.n <= MAXOBS
    /\ Len(raw.obs.data) <= MAXOBS

-----------------------------------------------------------------------------
(* Specification SpecTwin: two receivers; one is given every navigation
   message as UBX-RXM-SFRBX, the other the same message as UBX-TRK-SFRBX *)

MaxTwinFrames == 3

\* what is sent: constellation id, satellite id, frequency slot and words.
\* Known satellites of every constellation, satellite ids outside the
\* constellation's range, the id 255 of a GLONASS satellite not yet
\* identified, and a constellation id outside the map
TwinKinds ==
    { [gnss |-> 0, sv |-> 5, frq |-> 0, words |-> Dwords(LnavData(k, 7), 0, 6)] :
          k \in 1..3 }
      \cup
    { [gnss |-> 0, sv |-> 40, frq |-> 0, words |-> Dwords(LnavData(1, 7), 0, 6)],
      [gnss |-> 5, sv |-> 1, frq |-> 0, words |-> Dwords(LnavData(3, 7), 0, 6)],
      [gnss |-> 2, sv |-> 11, frq |-> 0,
       words |-> SwapWords(GalHalves(GalWord(2, 7, 11))) \o <<0, 0, 0, 0>>],
      [gnss |-> 3, sv |-> 10, frq |-> 0,
       words |-> BdsDwords(BdsData(FALSE, 1, 0, BdsIod), 0)],
      [gnss |-> 6, sv |-> 3, frq |-> 8,
       words |-> SwapWords(GloString(1, 17, <<0, 1>>))],
      [gnss |-> 6, sv |-> 255, frq |-> 8,
       words |-> SwapWords(GloString(1, 17, <<0, 1>>))],
      [gnss |-> 1, sv |-> 120, frq |-> 0,
       words |-> Dwords(LnavData(1, 7), 0, 6)],
      [gnss |-> 1, sv |-> 5, frq |-> 0,
       words |-> Dwords(LnavData(1, 7), 0, 6)],
      [gnss |-> 4, sv |-> 5, frq |-> 0,
       words |-> Dwords(LnavData(1, 7), 0, 6)] }

\* raw is the receiver of the RXM-SFRBX frames; tx holds the receiver of the
\* TRK-SFRBX frames and the status of its last frame
InitTwin ==
    /\ raw = RawInit(FALSE, Opt0)
    /\ tx = [raw |-> RawInit(FALSE, Opt0), ret |-> 0]
    /\ ret = 0 /\ info = NoInfo /\ hist = <<>> /\ sent = <<>>
    /\ GenIdle

DeliverTwin ==
    /\ Len(sent) < MaxTwinFrames
    /\ \E d \in TwinKinds, und \in UndWords :
          \E f \in {SfrbxFrame(d.gnss, d.sv, d.frq, d.words)},
             g \in {TrkSfrbxFrame(d.gnss, d.sv, d.frq, d.words)} :
             \E o \in {feed([raw |-> raw, ret |-> 0, info |-> NoInfo], f, 1, Len(f), und)},
                q \in {feed([raw |-> tx.raw, ret |-> 0, info |-> NoInfo], g, 1, Len(g), und)} :
                /\ raw' = o.raw /\ ret' = o.ret /\ info' = o.info
                /\ tx' = [raw |-> q.raw, ret |-> q.ret]
                /\ sent' = Append(sent, [gnss |-> d.gnss, sv |-> d.sv])
    /\ UNCHANGED <<hist, gmsg, gbuff, gn, gpos, gidle>>

NextTwin == DeliverTwin

SpecTwin == InitTwin /\ [][NextTwin]_vars

\* C21: for the same constellation id, satellite id and navigation words a
\* TRK-SFRBX frame and an RXM-SFRBX frame return the same status and make
\* the same changes to subfrm, nav, sbsmsg and ephsat, for every
\* constellation and every satellite id including unknown ones.
C21_TrkLikeRxm ==
    /\ ret = tx.ret
    /\ raw.subfrm = tx.raw.subfrm /\ raw.nav = tx.raw.nav
    /\ raw.sbsmsg = tx.raw.sbsmsg /\ raw.ephsat = tx.raw.ephsat

-----------------------------------------------------------------------------
(* Specification SpecFile: a file read by input_ubxf, and the same bytes fed
   one by one to input_ubx on a second receiver *)

MaxParts == 2

\* what a file is made of: stray bytes, runs of zeros around the length the
\* synchronisation loop gives up at, frames (TIM-TM2, RXM-RAWX, one of a
\* class without decoder, one with a wrong checksum), a header announcing
\* 4097 bytes, and a frame that lacks its last three bytes
FileParts ==
    { <<0>>, <<UBXSYNC1>>, Zeros(ResyncCap), Zeros(ResyncCap + 1),
      MkFrame(13, 3, <<0, 4>>),
      RawxFrame(2200, 1, <<Meas(0, 7, 1, One8)>>),
      MkFrame(6, 0, <<>>),
      Damaged(MkFrame(13, 3, <<0, 4>>)),
      <<UBXSYNC1, UBXSYNC2, 6, 0, 249, 15>>,
      SubSeq(MkFrame(13, 3, <<0, 4>>), 1, 7) }

RECURSIVE Files(_)
Files(n) ==
    IF n = 0 THEN {<<>>}
    ELSE Files(n - 1) \cup {f \o part : f \in Files(n - 1), part \in FileParts}

\* one call of input_ubx after the other on bytes[lo..hi]; st = [raw, log],
\* log lists the calls that reached decode_ubx or returned an error: status,
\* whether decode_ubx was reached, and the frame it was given
RECURSIVE feed_log(_, _, _, _, _)
feed_log(st, bytes, lo, hi, und) ==
    IF hi < lo THEN st
    ELSE IF hi = lo
    THEN CHOOSE after \in
            {[raw |-> o.raw,
              log |-> IF o.info.disp \/ o.ret # 0
                      THEN Append(st.log,
                                  [ret |-> o.ret, disp |-> o.info.disp,
                                   frame |-> IF o.info.disp
                                             THEN SubSeq(o.raw.buff, 1, o.raw.len)
                                             ELSE <<>>])
                      ELSE st.log] : o \in {input_ubx(st.raw, bytes[lo], und)}} : TRUE
    ELSE LET mid == lo + ((hi - lo) \div 2)
         IN  CHOOSE last \in {feed_log(first, bytes, mid + 1, hi, und) :
                                 first \in {feed_log(st, bytes, lo, mid, und)}} : TRUE

\* raw is the receiver that reads the file, hist the frames its calls gave
\* to decode_ubx and the errors they returned.  tx holds the file, the
\* position of the reader, the receiver fed byte by byte, the number of
\* bytes the last call read and the calls that gave up synchronising; sent
\* is the log of the receiver fed byte by byte
InitFile ==
    /\ raw = RawInit(FALSE, Opt0)
    /\ \E fp \in Files(MaxParts) :
          tx = [fp |-> fp, pos |-> 0, raw |-> RawInit(FALSE, Opt0), read |-> 0,
                gaveup |-> 0, disp |-> FALSE]
    /\ ret = 0 /\ info = NoInfo /\ hist = <<>> /\ sent = <<>>
    /\ GenIdle

ReadFile ==
    /\ ret # -2
    /\ \E und \in UndWords :
          \E a \in {input_ubxf(raw, tx.fp, tx.pos, und)} :
             \E b \in {feed_log([raw |-> tx.raw, log |-> sent], tx.fp, tx.pos + 1,
                                a.pos, und)} :
                /\ raw' = a.raw /\ ret' = a.ret
                /\ hist' = IF a.disp \/ a.ret = -1
                           THEN Append(hist, [ret |-> a.ret, disp |-> a.disp,
                                              frame |-> IF a.disp
                                                        THEN SubSeq(a.raw.buff, 1, a.raw.len)
                                                        ELSE <<>>])
                           ELSE hist
                /\ sent' = b.log
                /\ tx' = [tx EXCEPT !.pos = a.pos, !.raw = b.raw,
                                    !.read = a.pos - tx.pos, !.disp = a.disp,
                                    !.gaveup = IF a.ret = 0 /\ ~a.disp
                                               THEN tx.gaveup + 1 ELSE tx.gaveup]
    /\ UNCHANGED <<info, gmsg, gbuff, gn, gpos, gidle>>

NextFile == ReadFile

SpecFile == InitFile /\ [][NextFile]_vars

\* C22 as stated: for any byte stream input_ubxf hands the dispatcher the
\* same frames in the same order, and returns the same statuses for them,
\* as feeding the stream byte by byte to input_ubx; it differs only in
\* returning -2 when the stream ends and 0 once 4096 bytes have been
\* scanned without finding the sync pair.
C22_CapAt4096 ==
    /\ hist = sent
    /\ Decoded(raw) = Decoded(tx.raw)
    /\ ret = -2 => tx.pos = Len(tx.fp)
    /\ (ret = 0 /\ ~tx.disp /\ tx.read > 0) => tx.read = ResyncCap

\* C22: for any byte stream input_ubxf hands the dispatcher the same frames
\* in the same order, and returns the same statuses for them, as feeding
\* the stream byte by byte to input_ubx; it differs only in returning -2
\* when the stream ends and 0 once 4097 bytes have been scanned without
\* finding the sync pair.
C22_FileLikeStream ==
    /\ hist = sent
    /\ Decoded(raw) = Decoded(tx.raw)
    /\ ret = -2 => tx.pos = Len(tx.fp)
    /\ (ret = 0 /\ ~tx.disp /\ tx.read > 0) => tx.read = ResyncCap + 1

\* after a run of zeros the reader gave up once, then found the RXM-RAWX
\* frame that follows; both receivers were given the frame
C22_Witness ==
    /\ tx.gaveup = 1 /\ Len(hist) = 1
    /\ hist[1].disp /\ hist[1].ret = 1
    /\ sent = hist /\ ret = -2

-----------------------------------------------------------------------------
(* Specification SpecPar: two receiver instances and two calls of gen_ubx,
   each run by a thread of its own.  What the threads share are the
   statics of the program: the array adrs of decode_trkmeas and the
   position strtok keeps between its calls *)

MaxParFrames == 2

Threads == {1, 2}

\* the command texts of the two calls, and the frames each receiver is
\* given, in this order: RXM-RAWX, which sets the time, then TRK-MEAS
ParCommands == { <<"CFG-RATE", "9600">>, <<"CFG-RXM", "0", "1">> }
ParFrames == << TrkFrames.rawx, TrkFrames.meas2 >>

\* a call of gen_ubx that has not started
NoCall == [msg |-> <<>>, pc |-> "idle", first |-> TRUE, args |-> <<>>,
           out |-> [n |-> 0, buff |-> <<>>]]

\* strtok(first ? mbuff : NULL," ") called by thread t: the token returned
\* ("" for NULL) and the position kept for the next call.  buf is the buffer
\* the kept position points into; strtok(NULL) goes on from the kept
\* position whichever call stored it.  When the call that owns that buffer
\* has returned, the buffer is gone and what strtok reads there is not
\* defined: it may still read the text, or find the end at once
strtok_call(calls, save, t) ==
    LET from == IF calls[t].first THEN [buf |-> t, at |-> 1] ELSE save
        text == IF from.buf = 0 THEN <<>> ELSE calls[from.buf].msg
        hits == {k \in from.at..Len(text) : text[k] # ""}
        k1   == IF hits = {} THEN Len(text) + 1
                ELSE CHOOSE k \in hits : \A m \in hits : k <= m
        gone == from.buf # 0 /\ calls[from.buf].pc = "done"
    IN  {[p |-> IF hits = {} THEN "" ELSE text[k1],
          save |-> [buf |-> from.buf, at |-> IF hits = {} THEN k1 ELSE k1 + 1]]}
          \cup (IF gone THEN {[p |-> "", save |-> from]} ELSE {})

\* raw and tx.raw2 are the two receivers, tx.call the two calls of gen_ubx,
\* hist the statics: who stored into which entry of adrs, and the position
\* strtok keeps.  sent counts the frames of each receiver
InitPar ==
    /\ raw = RawInit(FALSE, Opt0)
    /\ tx = [raw2 |-> RawInit(FALSE, Opt0), call |-> [t \in Threads |-> NoCall]]
    /\ hist = [adrs |-> {}, save |-> [buf |-> 0, at |-> 1]]
    /\ sent = [t \in Threads |-> 0]
    /\ ret = 0 /\ info = NoInfo
    /\ GenIdle

\* receiver t is given one frame
DecodePar ==
    \E t \in Threads :
       /\ sent[t] < MaxParFrames
       /\ \E f \in {ParFrames[sent[t] + 1]}, before \in {IF t = 1 THEN raw ELSE tx.raw2} :
             \E o \in {feed([raw |-> before, ret |-> 0, info |-> NoInfo], f, 1, Len(f), 0)} :
                /\ raw' = IF t = 1 THEN o.raw ELSE raw
                /\ ret' = IF t = 1 THEN o.ret ELSE ret
                /\ tx' = IF t = 1 THEN tx ELSE [tx EXCEPT !.raw2 = o.raw]
                /\ hist' = IF f[3] = 3 /\ f[4] = 16
                           THEN [hist EXCEPT !.adrs = @ \cup
                                    {[sat |-> sat, by |-> t] :
                                        sat \in trkmeas_adrs([before EXCEPT !.buff = o.raw.buff,
                                                                            !.len = o.raw.len])}]
                           ELSE hist
       /\ sent' = [sent EXCEPT ![t] = @ + 1]
       /\ UNCHANGED <<info, gmsg, gbuff, gn, gpos, gidle>>

\* thread t enters gen_ubx: strcpy(mbuff,msg)
GenStart ==
    \E t \in Threads, msg \in ParCommands :
       /\ tx.call[t].pc = "idle"
       /\ tx' = [tx EXCEPT !.call[t] = [NoCall EXCEPT !.msg = msg, !.pc = "tok"]]
       /\ UNCHANGED <<raw, ret, info, hist, sent, gmsg, gbuff, gn, gpos, gidle>>

\* one pass of for (p=strtok(mbuff," ");p&&narg<32;p=strtok(NULL," ")) in
\* thread t: the call of strtok, the test, and args[narg++]=p
GenTok ==
    \E t \in Threads :
       /\ tx.call[t].pc = "tok"
       /\ \E s \in strtok_call(tx.call, hist.save, t) :
             /\ hist' = [hist EXCEPT !.save = s.save]
             /\ tx' = IF s.p # "" /\ Len(tx.call[t].args) < MAXARGS
                      THEN [tx EXCEPT !.call[t].first = FALSE,
                                      !.call[t].args = Append(@, s.p)]
                      ELSE [tx EXCEPT !.call[t].first = FALSE, !.call[t].pc = "build"]
       /\ UNCHANGED <<raw, ret, info, sent, gmsg, gbuff, gn, gpos, gidle>>

\* the rest of gen_ubx in thread t, on its own args and buffer, and return
GenBuild ==
    \E t \in Threads :
       /\ tx.call[t].pc = "build"
       /\ tx' = [tx EXCEPT !.call[t].pc = "done",
                           !.call[t].out = gen_ubx_args(tx.call[t].args, <<>>)]
       /\ UNCHANGED <<raw, ret, info, hist, sent, gmsg, gbuff, gn, gpos, gidle>>

NextPar == DecodePar \/ GenStart \/ GenTok \/ GenBuild

SpecPar == InitPar /\ [][NextPar]_vars

\* C23: two receiver instances and two calls of gen_ubx can be driven in
\* parallel with any interleaving and without locks: no entry of a static
\* is stored into by both threads, and every call of gen_ubx that has
\* returned has the result it has when run alone.
C23_ParallelAsAlone ==
    /\ \A w1 \in hist.adrs : \A w2 \in hist.adrs : w1.sat = w2.sat => w1.by = w2.by
    /\ \A t \in Threads :
          tx.call[t].pc = "done" => tx.call[t].out = gen_ubx(tx.call[t].msg, <<>>)

-----------------------------------------------------------------------------
(* Specification SpecMix: RXM-RAWX frames of version 0 and 1 whose blocks
   are of several constellations, some of them blocks the decoder skips;
   a second receiver is given the same frames without those blocks *)

MaxMixFrames == 2
MaxBlocks == 2

\* a measurement block of constellation gnss, satellite sv, signal sig
MixMeas(gnss, sv, sig, lockt) ==
    [Meas(lockt, 7, 1, One8) EXCEPT !.gnssId = gnss, !.svId = sv, !.sigId = sig]

\* G05 on L1 and on L2, E11, C10, R03, J01, S120; then
\* gnssId 4, G40, R255, and G05 with a signal id the classifier has not
MixBlocks ==
    { MixMeas(0, 5, 0, 2000), MixMeas(0, 5, 3, 2000),
      MixMeas(2, 11, 0, 2000), MixMeas(3, 10, 0, 2000), MixMeas(6, 3, 0, 2000),
      MixMeas(5, 1, 0, 2000), MixMeas(1, 120, 0, 9000),
      MixMeas(4, 5, 0, 0), MixMeas(0, 40, 0, 0), MixMeas(6, 255, 0, 0),
      MixMeas(0, 5, 9, 0) }

RECURSIVE BlockSeqs(_)
BlockSeqs(n) ==
    IF n = 0 THEN {<<>>}
    ELSE BlockSeqs(n - 1) \cup {Append(s, m) : s \in BlockSeqs(n - 1), m \in MixBlocks}

\* the system, the satellite number, the observation code and the slot of
\* block m in a frame of version ver, by the classifiers of the decoder
MixSys(m)  == ubx_sys(m.gnssId)
MixSat(m)  == satno(MixSys(m), m.svId + (IF MixSys(m) = "QZS" THEN MINPRNQZS - 1 ELSE 0))
Fallback(sys) == IF sys = "CMP" THEN "L2I" ELSE IF sys = "GAL" THEN "L1X" ELSE "L1C"
MixCode(m, ver) == IF ver >= 1 THEN ubx_sig(MixSys(m), m.sigId) ELSE Fallback(MixSys(m))
MixSlot(m, ver) == sig_idx(MixSys(m), MixCode(m, ver))

\* the block is one the decoder skips: unknown gnssId, invalid satellite
\* number, or a signal without slot
Skipped(m, ver) ==
    MixSys(m) = "NONE" \/ MixSat(m) = 0 \/ MixSlot(m, ver) = 0 \/ MixSlot(m, ver) > NSLOT

\* raw is the receiver, tx the receiver that is given the frames without the
\* skipped blocks and its status; sent is the last frame, with the version
\* the sender uses for all its frames, hist the number of frames and of
\* blocks so far
InitMix ==
    /\ raw = RawInit(FALSE, Opt0)
    /\ tx = [raw |-> RawInit(FALSE, Opt0), ret |-> 0]
    /\ \E ver \in {0, 1} : sent = [ver |-> ver, ms |-> <<>>, n |-> 0]
    /\ hist = [frames |-> 0, blocks |-> 0]
    /\ ret = 0 /\ info = NoInfo
    /\ GenIdle

DeliverMix ==
    /\ hist.frames < MaxMixFrames
    /\ \E ver \in {sent.ver}, ms \in BlockSeqs(MaxBlocks - hist.blocks) :
          \E f \in {RawxFrame(2200, ver, ms)},
             g \in {RawxFrame(2200, ver, SelectSeq(ms, LAMBDA m : ~Skipped(m, ver)))} :
             \E o \in {feed([raw |-> raw, ret |-> 0, info |-> NoInfo], f, 1, Len(f), 0)},
                w \in {feed([raw |-> tx.raw, ret |-> 0, info |-> NoInfo], g, 1, Len(g), 0)} :
                /\ raw' = o.raw /\ ret' = o.ret /\ info' = o.info
                /\ tx' = [raw |-> w.raw, ret |-> w.ret]
                /\ sent' = [ver |-> ver, ms |-> ms, n |-> raw.obs.n]
                /\ hist' = [frames |-> hist.frames + 1, blocks |-> hist.blocks + Len(ms)]
    /\ UNCHANGED <<gmsg, gbuff, gn, gpos, gidle>>

NextMix == DeliverMix

SpecMix == InitMix /\ [][NextMix]_vars

\* the satellites of the blocks of the last frame that are not skipped
KeptSats == {MixSat(sent.ms[k]) : k \in {i \in 1..Len(sent.ms) : ~Skipped(sent.ms[i], sent.ver)}}

\* C27: an RXM-RAWX frame of sufficient length and non-zero week returns 1
\* whatever number of its blocks are skipped; a skipped block adds no
\* observation row and does not alter lockt, halfc or lockflag, and the
\* other blocks are decoded exactly as if the skipped blocks were absent.
C27_SkippedAsAbsent ==
    hist.frames > 0 =>
        /\ ret = 1 /\ tx.ret = 1
        /\ raw.obs.n = Cardinality(KeptSats)
        /\ Decoded(raw) = Decoded(tx.raw)

\* a frame whose only block has an unknown gnssId came after a frame that
\* had locked G05: it returned 1 with no row, and the lock time and the
\* slip flag of G05 are those the first frame left
C27_Witness ==
    /\ hist.frames = 2 /\ ret = 1
    /\ sent.ms = <<MixMeas(4, 5, 0, 0)>> /\ sent.n = 1
    /\ raw.obs.n = 0 /\ At(raw.lockt, 5, 1) = 2000 /\ At(raw.halfc, 5, 1) = 0

\* slot f of the row of satellite sat is populated by a block of the frame
\* last given
Populated(sat, f) ==
    \E k \in 1..Len(sent.ms) :
        /\ ~Skipped(sent.ms[k], sent.ver)
        /\ MixSat(sent.ms[k]) = sat /\ MixSlot(sent.ms[k], sent.ver) = f

\* C35: after any RXM-RAWX frame that returns 1, the rows 0..obs.n-1 have
\* pairwise distinct satellite ids, obs.n is at most the number of
\* measurement blocks of the frame, and every slot of a row that no block
\* of this frame populated has zero P, L, D, SNR, LLI and quality fields and
\* code NONE.
C35_RowsOfThisFrame ==
    (hist.frames > 0 /\ ret = 1) =>
        /\ \A i \in 0..(raw.obs.n - 1), j \in 0..(raw.obs.n - 1) :
              i # j => RowAt(raw.obs.data, i).sat # RowAt(raw.obs.data, j).sat
        /\ raw.obs.n <= Len(sent.ms)
        /\ \A j \in 0..(raw.obs.n - 1), f \in 1..NSLOT :
              ~Populated(RowAt(raw.obs.data, j).sat, f) =>
                  /\ RowAt(raw.obs.data, j).P[f] = Zero8
                  /\ RowAt(raw.obs.data, j).L[f] = Zero8
                  /\ RowAt(raw.obs.data, j).D[f] = Zero4
                  /\ RowAt(raw.obs.data, j).SNR[f] = 0
                  /\ RowAt(raw.obs.data, j).LLI[f] = 0
                  /\ RowAt(raw.obs.data, j).qualL[f] = 0
                  /\ RowAt(raw.obs.data, j).qualP[f] = 0
                  /\ RowAt(raw.obs.data, j).code[f] = "NONE"

\* the frame before had G05 on slot 2 only, this one has it on slot 1 only:
\* row 0 holds slot 1 and nothing in slot 2
C35_Witness ==
    /\ hist.frames = 2 /\ ret = 1 /\ raw.obs.n = 1
    /\ At(raw.lockt, 5, 2) = 2000
    /\ Len(sent.ms) = 1 /\ sent.ms[1].sigId = 0
    /\ RowAt(raw.obs.data, 0).sat = 5
    /\ RowAt(raw.obs.data, 0).code[1] = "L1C" /\ RowAt(raw.obs.data, 0).P[1] = Range8
    /\ RowAt(raw.obs.data, 0).code[2] = "NONE" /\ RowAt(raw.obs.data, 0).P[2] = Zero8

\* C28: in an RXM-RAWX frame of version 0 every block of a known satellite
\* is given the fallback code (L2I for BeiDou, L1X for Galileo, L1C for the
\* others) and is emitted as an observation in the slot the signal
\* classifier assigns to that code, for every constellation.
C28_FallbackEmitted ==
    (hist.frames > 0 /\ sent.ver = 0) =>
        \A k \in 1..Len(sent.ms) :
            (MixSys(sent.ms[k]) # "NONE" /\ MixSat(sent.ms[k]) # 0) =>
                /\ MixSlot(sent.ms[k], 0) \in 1..NSLOT
                /\ \E j \in 0..(raw.obs.n - 1) :
                      /\ RowAt(raw.obs.data, j).sat = MixSat(sent.ms[k])
                      /\ RowAt(raw.obs.data, j).code[MixSlot(sent.ms[k], 0)]
                           = Fallback(MixSys(sent.ms[k]))

-----------------------------------------------------------------------------
(* Specification SpecAux: observation, time and time-mark frames, with
   navigation frames among them *)

MaxAuxFrames == 3

\* UBX-NAV-SOL and UBX-NAV-TIMEGPS with iTOW 100 s, week 2200 and the flags
\* that mark week and time of week as valid
NavSolFrame  == MkFrame(1, 6, Tow100s \o Zero4 \o <<152, 8, 3, 12>> \o Zeros(40))
NavTimeFrame == MkFrame(1, 32, Tow100s \o Zero4 \o <<152, 8, 18, 3>> \o Zeros(4))

\* the frames: RXM-RAWX, RXM-RAW, TRK-MEAS and TRK-D5 with two channels,
\* TRK-MEAS with MAXOBS+1 channels in phase lock, NAV-SOL, NAV-TIMEGPS and
\* TIM-TM2; and two navigation frames, a GLONASS string and an SBAS message
AuxFrames ==
    { [kind |-> "obs", frame |-> f] :
          f \in { TrkFrames.rawx, RawFrame(Tow100s, 2200, 1, RawBlock(5, 0)),
                  TrkFrames.meas2, TrkFrames.measN, TrkFrames.d5two,
                  NavSolFrame, NavTimeFrame, MkFrame(13, 3, <<0, 4>>) } }
      \cup
    { [kind |-> "nav", frame |-> f] :
          f \in { SfrbxFrame(6, 3, 8, SwapWords(GloString(1, 17, <<0, 1>>))),
                  SfrbxFrame(1, 120, 0, Dwords(LnavData(1, 7), 0, 6)) } }

\* nav, subfrm, sbsmsg and ephsat of a receiver
NavPart(r) == [nav |-> r.nav, subfrm |-> r.subfrm, sbsmsg |-> r.sbsmsg,
               ephsat |-> r.ephsat]

\* obs.data has the MAXOBS rows init_raw allocated.  A row a decoder stored
\* past them is a store into the memory behind the array, and what lies
\* there is not defined by the program: memory that is not in use, or one
\* of the other arrays of the receiver, of which nav.eph is taken here.
\* before and r are the receiver before and after the call
past_end(before, r, behind) ==
    LET Beyond(data) == SubSeq(data, MAXOBS + 1, Len(data))
    IN  IF Beyond(r.obs.data) # Beyond(before.obs.data) /\ behind = "eph"
        THEN [r EXCEPT !.nav = SetEph(r.nav, 1,
                                      [Eph0 EXCEPT !.sat = RowAt(r.obs.data, MAXOBS).sat])]
        ELSE r

\* sent tells the kind of the last frame and whether nav, subfrm, sbsmsg
\* and ephsat are what they were before it; hist counts the frames
InitAux ==
    /\ raw = RawInit(FALSE, Opt0)
    /\ sent = [kind |-> "none", same |-> TRUE]
    /\ hist = 0 /\ tx = <<>>
    /\ ret = 0 /\ info = NoInfo
    /\ GenIdle

DeliverAux ==
    /\ hist < MaxAuxFrames
    /\ \E fr \in AuxFrames, behind \in {"free", "eph"} :
          \E o \in {feed([raw |-> raw, ret |-> 0, info |-> NoInfo],
                         fr.frame, 1, Len(fr.frame), 0)} :
             \E after \in {past_end(raw, o.raw, behind)} :
                /\ raw' = after /\ ret' = o.ret /\ info' = o.info
                /\ sent' = [kind |-> fr.kind, same |-> NavPart(after) = NavPart(raw)]
    /\ hist' = hist + 1
    /\ UNCHANGED <<tx, gmsg, gbuff, gn, gpos, gidle>>

NextAux == DeliverAux

SpecAux == InitAux /\ [][NextAux]_vars

-----------------------------------------------------------------------------
(* Specification SpecUnk: frames of message ids without decoder, among
   frames that fill the receiver state *)

MaxUnkFrames == 3

\* frames with a valid checksum: CFG-PRT, NAV-PVT and class 2 id 0x14, which
\* have no decoder; RXM-RAWX, TIM-TM2, a GLONASS string and an SBAS message
UnkFrames ==
    { [kind |-> "unknown", frame |-> f] :
          f \in { MkFrame(6, 0, <<>>), MkFrame(1, 7, <<1, 2>>), MkFrame(2, 20, <<>>) } }
      \cup
    { [kind |-> "known", frame |-> f] :
          f \in { TrkFrames.rawx, MkFrame(13, 3, <<0, 4>>),
                  SfrbxFrame(6, 3, 8, SwapWords(GloString(1, 17, <<0, 1>>))),
                  SfrbxFrame(1, 120, 0, Dwords(LnavData(1, 7), 0, 6)) } }

\* sent tells the kind of the last frame, whether the receiver state apart
\* from the frame accumulator is what it was before the frame, and whether
\* it is so with msgtype left out; hist counts the frames
InitUnk ==
    /\ \E ot \in BOOLEAN : raw = RawInit(ot, Opt0)
    /\ sent = [kind |-> "none", same |-> TRUE, rest |-> TRUE, type |-> 0]
    /\ hist = 0 /\ tx = <<>>
    /\ ret = 0 /\ info = NoInfo
    /\ GenIdle

DeliverUnk ==
    /\ hist < MaxUnkFrames
    /\ \E fr \in UnkFrames :
          \E o \in {feed([raw |-> raw, ret |-> 0, info |-> NoInfo],
                         fr.frame, 1, Len(fr.frame), 0)} :
             /\ raw' = o.raw /\ ret' = o.ret /\ info' = o.info
             /\ sent' = [kind |-> fr.kind,
                         same |-> Decoded(o.raw) = Decoded(raw),
                         rest |-> [Decoded(o.raw) EXCEPT !.msgtype = <<>>]
                                    = [Decoded(raw) EXCEPT !.msgtype = <<>>],
                         type |-> fr.frame[3] * 256 + fr.frame[4]]
    /\ hist' = hist + 1
    /\ UNCHANGED <<tx, gmsg, gbuff, gn, gpos, gidle>>

NextUnk == DeliverUnk

SpecUnk == InitUnk /\ [][NextUnk]_vars

\* C30 as stated: a frame with a valid checksum whose (class<<8)|id is not
\* one of the ten supported ids returns 0 and has no side effects on the
\* receiver state: obs, nav, subfrm, sbsmsg, time, ephsat, slip state and
\* message-type annotation.
C30_NoSideEffects ==
    (sent.kind = "unknown" /\ sent.type \notin SupportedIds) =>
        (ret = 0 /\ info.disp /\ sent.same)

\* C30: such a frame returns 0 and has no side effects on obs, nav, subfrm,
\* sbsmsg, time, ephsat and slip state; the message-type annotation is
\* left as it was when outtype is not set.
C30_UnknownIgnored ==
    (sent.kind = "unknown" /\ sent.type \notin SupportedIds) =>
        /\ ret = 0 /\ info.disp
        /\ sent.rest
        /\ ~raw.outtype => sent.same

\* a CFG-PRT frame came after an RXM-RAWX frame to a receiver with outtype
\* set: the observation is still there and msgtype names the CFG-PRT frame
C30_Witness ==
    /\ sent.kind = "unknown" /\ sent.type = 1536 /\ raw.outtype
    /\ raw.obs.n = 1 /\ sent.rest /\ ~sent.same
    /\ raw.msgtype = <<"UBX", 6, 0, 8>>

-----------------------------------------------------------------------------
(* Specification SpecChan: TRK-MEAS frames of up to two channels of every
   kind the channel loop tells apart, given before and after an RXM-RAWX
   frame has set the epoch, some declaring a channel more than they hold *)

MaxChanFrames == 1

\* the channels: G05 in code and carrier lock, G07 in code lock only, GPS
\* channels in phase lock with a quality indicator below and above the
\* range, R03 in phase lock, a channel of gnssId 4, and GPS svId 40
ChanKinds ==
    { [qi |-> 7, gnss |-> 0, sv |-> 5,  flag |-> 160],
      [qi |-> 4, gnss |-> 0, sv |-> 7,  flag |-> 0],
      [qi |-> 3, gnss |-> 0, sv |-> 6,  flag |-> 32],
      [qi |-> 8, gnss |-> 0, sv |-> 8,  flag |-> 32],
      [qi |-> 5, gnss |-> 6, sv |-> 3,  flag |-> 32],
      [qi |-> 6, gnss |-> 4, sv |-> 1,  flag |-> 32],
      [qi |-> 7, gnss |-> 0, sv |-> 40, flag |-> 32] }

\* no channel, one channel, two channels
ChanSeqs ==
    {<<>>} \cup {<<c>> : c \in ChanKinds} \cup {<<c, d>> : c \in ChanKinds, d \in ChanKinds}

RECURSIVE ChanBytes(_)
ChanBytes(cs) ==
    IF cs = <<>> THEN <<>>
    ELSE TrkChan(cs[1].qi, cs[1].gnss, cs[1].sv, cs[1].flag, 70) \o ChanBytes(Tail(cs))

\* UBX-TRK-MEAS that declares decl channels and holds those of cs
ChanFrame(decl, cs) == MkFrame(3, 16, <<0, 0, decl>> \o Zeros(101) \o ChanBytes(cs))

NoChans == [kind |-> "none", chans |-> <<>>, decl |-> 0]

InitChan ==
    /\ raw = RawInit(FALSE, Opt0)
    /\ ret = 0 /\ info = NoInfo /\ hist = 0 /\ sent = NoChans
    /\ tx = RawInit(FALSE, Opt0)
    /\ GenIdle

\* an RXM-RAWX frame of G05, as the first frame: sets raw.time
DeliverEpoch ==
    /\ sent.kind = "none"
    /\ \E f \in {TrkFrames.rawx} :
          \E o \in {feed([raw |-> raw, ret |-> 0, info |-> NoInfo], f, 1, Len(f), 0)} :
             /\ raw' = o.raw /\ ret' = o.ret /\ info' = o.info
    /\ tx' = raw /\ hist' = hist
    /\ sent' = [NoChans EXCEPT !.kind = "epoch"]
    /\ UNCHANGED <<gmsg, gbuff, gn, gpos, gidle>>

DeliverChans ==
    /\ hist < MaxChanFrames
    /\ \E cs \in ChanSeqs : \E more \in {0, 1} :
          \E f \in {ChanFrame(Len(cs) + more, cs)} :
             \E o \in {feed([raw |-> raw, ret |-> 0, info |-> NoInfo], f, 1, Len(f), 0)} :
                /\ raw' = o.raw /\ ret' = o.ret /\ info' = o.info
                /\ sent' = [kind |-> "meas", chans |-> cs, decl |-> Len(cs) + more]
    /\ tx' = raw /\ hist' = hist + 1
    /\ UNCHANGED <<gmsg, gbuff, gn, gpos, gidle>>

NextChan == DeliverEpoch \/ DeliverChans

SpecChan == InitChan /\ [][NextChan]_vars

\* the satellite a channel names, 0 when its constellation or number is unknown
ChanSat(c) == satno(ubx_sys(c.gnss), c.sv + (IF ubx_sys(c.gnss) = "QZS" THEN 192 ELSE 0))
\* quality indicator in [4,7], constellation and satellite known, bit 0x20 set
ChanLocked(c) == c.qi \in 4..7 /\ ChanSat(c) # 0 /\ c.flag \div 32 % 2 = 1
\* the channels of the frame last given that are to produce a row, in order
ChanRows == SelectSeq(sent.chans, ChanLocked)

\* the rows are those of the locked channels, the frame returns 1 exactly
\* when there is one, and otherwise 0 with obs.n, the rows and raw.time kept
RowsAsLocked ==
    /\ ret = 1 <=> Len(ChanRows) > 0
    /\ ret = 1 => /\ raw.obs.n = Len(ChanRows)
                  /\ \A k \in 1..Len(ChanRows) :
                        /\ RowAt(raw.obs.data, k - 1).sat = ChanSat(ChanRows[k])
                        /\ RowAt(raw.obs.data, k - 1).qualL[1] = 8 - ChanRows[k].qi
    /\ ret # 1 => /\ ret = 0
                  /\ raw.obs.n = tx.obs.n /\ raw.obs.data = tx.obs.data
                  /\ raw.time = tx.time

\* the frame holds the channels it declares, raw.time was set before it, and
\* one of its GPS channels has a quality indicator of 4 or more
ChanTimed ==
    /\ ~IsUnset(tx.time)
    /\ sent.decl <= Len(sent.chans)
    /\ \E k \in 1..Len(sent.chans) : sent.chans[k].qi >= 4 /\ sent.chans[k].gnss = 0

-----------------------------------------------------------------------------
(* Specification SpecTm2: TIM-TM2 frames with every combination of the edge
   flags the decoder tells apart, between frames that fill observation rows *)

MaxTm2Frames == 3

\* UBX-TIM-TM2 (28 bytes): ch, flags, count, wnR, wnF (week 2200), towMsR,
\* towSubMsR, towMsF, towSubMsF, accEst
Tm2Frame(flags, count) ==
    MkFrame(13, 3, <<0, flags, count % 256, count \div 256, 152, 8, 152, 8>> \o Zeros(20))

\* flags: none, new falling edge, falling edge with valid time, new rising
\* edge only, all but the falling edge, all
Tm2Flags == {0, 4, 68, 128, 251, 255}

Tm2Frames ==
    { [kind |-> "tm2", fall |-> (fl \div 4) % 2, frame |-> Tm2Frame(fl, 9)] : fl \in Tm2Flags }
      \cup { [kind |-> "tm2", fall |-> 1, frame |-> MkFrame(13, 3, <<0, 4>>)] }
      \cup { [kind |-> "other", fall |-> 0, frame |-> f] :
                f \in { TrkFrames.rawx, TrkFrames.meas2, NavSolFrame } }

InitTm2 ==
    /\ raw = RawInit(FALSE, Opt0)
    /\ ret = 0 /\ info = NoInfo /\ hist = 0
    /\ sent = [kind |-> "none", fall |-> 0]
    /\ tx = RawInit(FALSE, Opt0)
    /\ GenIdle

DeliverTm2 ==
    /\ hist < MaxTm2Frames
    /\ \E m \in Tm2Frames : \E und \in UndWords :
          \E o \in {feed([raw |-> raw, ret |-> 0, info |-> NoInfo], m.frame, 1, Len(m.frame), und)} :
             /\ raw' = o.raw /\ ret' = o.ret /\ info' = o.info
             /\ sent' = [kind |-> m.kind, fall |-> m.fall]
    /\ tx' = raw /\ hist' = hist + 1
    /\ UNCHANGED <<gmsg, gbuff, gn, gpos, gidle>>

NextTm2 == DeliverTm2

SpecTm2 == InitTm2 /\ [][NextTm2]_vars

\* the measurement fields of row j
MeasFields(r, j) ==
    [time |-> RowAt(r.obs.data, j).time, sat |-> RowAt(r.obs.data, j).sat,
     P |-> RowAt(r.obs.data, j).P, L |-> RowAt(r.obs.data, j).L,
     D |-> RowAt(r.obs.data, j).D, SNR |-> RowAt(r.obs.data, j).SNR,
     LLI |-> RowAt(r.obs.data, j).LLI, code |-> RowAt(r.obs.data, j).code,
     qualL |-> RowAt(r.obs.data, j).qualL, qualP |-> RowAt(r.obs.data, j).qualP]

\* C32: after any TIM-TM2 frame, obs.flag is 5 if the frame's
\* new-falling-edge flag is set and 0 otherwise; obs.tmcount increases by
\* exactly one per falling-edge frame and never otherwise, so it never
\* decreases; the frame returns 0 and leaves obs.n and the measurement fields
\* of all rows unchanged.
C32_EventCounted ==
    /\ raw.obs.tmcount =
          tx.obs.tmcount + (IF sent.kind = "tm2" /\ sent.fall = 1 THEN 1 ELSE 0)
    /\ sent.kind = "tm2" =>
          /\ ret = 0
          /\ raw.obs.flag = (IF sent.fall = 1 THEN 5 ELSE 0)
          /\ raw.obs.n = tx.obs.n
          /\ \A j \in 0..MAXOBS - 1 : MeasFields(raw, j) = MeasFields(tx, j)

\* the second falling edge after an RXM-RAWX frame has given a row
C32_Witness ==
    /\ sent.kind = "tm2" /\ sent.fall = 1
    /\ raw.obs.tmcount = 2 /\ raw.obs.flag = 5 /\ raw.obs.rcvcount = 9
    /\ raw.obs.n = 1 /\ RowAt(raw.obs.data, 0).sat = 5
    /\ RowAt(raw.obs.data, 0).timevalid = 1

-----------------------------------------------------------------------------
(* Specification SpecTadj: a receiver with -TADJ=0.1 or -TADJ=0.2 is given
   RXM-RAWX frames whose time of week is on and off the multiples of the
   interval, with measurements that have code and phase, code only and
   phase only *)

MaxTadjFrames == 2

\* -TADJ=0.1, -TADJ=0.2
OptTadj == {[Opt0 EXCEPT !.has_tadj = TRUE, !.tadj = ms] : ms \in {100, 200}}

\* rcvTow 100.0, 100.03 and 100.07 s
TadjTows == {<<0, 0, 0, 0, 0, 0, 89, 64>>, <<82, 184, 30, 133, 235, 1, 89, 64>>,
              <<20, 174, 71, 225, 122, 4, 89, 64>>}

\* G05 with code and phase, G07 with code only, G09 with phase only, R03
\* with code and phase
TadjMeas ==
    { Meas(2000, 7, 1, One8),
      [Meas(2000, 1, 1, One8) EXCEPT !.svId = 7],
      [Meas(2000, 2, 1, One8) EXCEPT !.svId = 9],
      [Meas(2000, 7, 1, One8) EXCEPT !.gnssId = 6, !.svId = 3] }

TadjSeqs == {<<m>> : m \in TadjMeas} \cup {<<m, n>> : m \in TadjMeas, n \in TadjMeas}

\* UBX-RXM-RAWX of week 2200, version 1, with rcvTow tow
RawxFrameAt(tow, ms) ==
    MkFrame(2, 21, tow \o <<152, 8, 18, Len(ms), 1, 1, 0, 0>> \o RawxBlocks(ms))

InitTadj ==
    /\ \E opt \in OptTadj : raw = RawInit(FALSE, opt)
    /\ ret = 0 /\ info = NoInfo /\ hist = 0 /\ tx = <<>>
    /\ sent = [kind |-> "none", tow |-> 0, ms |-> <<>>]
    /\ GenIdle

DeliverTadj ==
    /\ hist < MaxTadjFrames
    /\ \E tow \in TadjTows : \E ms \in TadjSeqs :
          \E f \in {RawxFrameAt(tow, ms)} :
             \E o \in {feed([raw |-> raw, ret |-> 0, info |-> NoInfo], f, 1, Len(f), 0)} :
                /\ raw' = o.raw /\ ret' = o.ret /\ info' = o.info
                /\ sent' = [kind |-> "rawx", tow |-> Tow8ms[tow], ms |-> ms]
    /\ hist' = hist + 1
    /\ UNCHANGED <<tx, gmsg, gbuff, gn, gpos, gidle>>

NextTadj == DeliverTadj

SpecTadj == InitTadj /\ [][NextTadj]_vars

\* (tow/t - round(tow/t))*t in ms: the distance of tow from the nearest
\* multiple of t
NearestOff(tow, t) == CHOOSE d \in (0 - t)..t : (tow - d) % t = 0 /\ 0 - t <= 2 * d /\ 2 * d < t
\* x - toff*c, as the decoder's rows hold it
Shifted(x, toff, tail) == IF toff = 0 THEN x ELSE x \o <<toff>> \o tail
\* the row of the satellite of measurement m
TadjRow(m) ==
    RowAt(raw.obs.data,
          FindRow(raw.obs.data, satno(ubx_sys(m.gnssId), m.svId), 0, raw.obs.n))

\* C33: with -TADJ=t (t > 0) active, every RXM-RAWX epoch is shifted by
\* toff = (tow/t - round(tow/t))*t onto a multiple of t, every pseudorange
\* emitted in that epoch is P_in - toff*c and every emitted phase is
\* L_in - toff*f_signal, for every measurement of the frame.
C33_OffsetApplied ==
    (sent.kind = "rawx" /\ ret = 1) =>
        \A toff \in {NearestOff(sent.tow, raw.opt.tadj)} :
           /\ Epoch(raw.time).ms = sent.tow - toff
           /\ Epoch(raw.time).ms % raw.opt.tadj = 0
           /\ \A k \in 1..Len(sent.ms) :
                 /\ sent.ms[k].trkStat % 2 = 1 =>
                       TadjRow(sent.ms[k]).P[1] = Shifted(Range8, toff, <<>>)
                 /\ (sent.ms[k].trkStat \div 2) % 2 = 1 =>
                       TadjRow(sent.ms[k]).L[1] =
                          Shifted(sent.ms[k].cpMes, toff,
                                  <<sig_freq(ubx_sys(sent.ms[k].gnssId), 1, 0)>>)

-----------------------------------------------------------------------------
(* Specification SpecEph: a satellite of GPS, Galileo, BeiDou or GLONASS
   broadcasts its ephemeris cycle after cycle, keeping or changing the issue
   of data at each cycle, to a receiver with or without -EPHALL *)

MaxEphFrames == 14

EphStreams ==
    { [sys |-> "GPS", gnss |-> 0, sv |-> 5,  sat |-> 5,   via |-> "sfrbx"],
      [sys |-> "GAL", gnss |-> 2, sv |-> 11, sat |-> 70,  via |-> "sfrbx"],
      [sys |-> "CMP", gnss |-> 3, sv |-> 10, sat |-> 106, via |-> "sfrbx"],
      [sys |-> "GLO", gnss |-> 6, sv |-> 3,  sat |-> 35,  via |-> "sfrbx"] }

\* the parts of one cycle, in the order sent: LNAV subframes, I/NAV words,
\* D1 subframes, GLONASS strings
EphCycle(s) ==
    CASE s.sys = "GAL" -> <<2, 3, 4, 5, 6, 0, 1>>
      [] s.sys = "GLO" -> <<1, 2, 3, 4>>
      [] OTHER         -> <<1, 2, 3>>

\* the 16 bytes of GLONASS string m of R03 under frame id 1: the issue of
\* data (tb) in string 2, the slot number in string 4, the check bits of the
\* Hamming code
GloEphString(m, iod) ==
    LET F  == {<<1, 4, m>>} \cup (IF m = 2 THEN {<<9, 7, iod>>} ELSE {})
                \cup (IF m = 4 THEN {<<70, 5, 3>>} ELSE {})
        kx == CHOOSE c \in 0..255 :
                  \A i \in 1..8 : glo_cs(FieldBytes(11, F \cup {<<77, 8, c>>}), i) = 0
    IN  FieldBytes(11, F \cup {<<77, 8, kx>>}) \o <<0, 0, 1, 0, 0>>

EphFrame(s, k, iod) ==
    CASE s.sys = "CMP" -> SfrbxFrame(3, s.sv, 0, BdsDwords(BdsData(FALSE, k, 0, iod), 0))
      [] s.sys = "GLO" -> SfrbxFrame(6, s.sv, 8, SwapWords(GloEphString(k, iod)))
      [] OTHER         -> PartFrame(s, k, iod)

\* tx is the sender: its satellite, the index of the next part in the cycle
\* and the issue of the cycle being sent; hist counts the frames
InitEph ==
    /\ \E opt \in {Opt0, OptEphAll} : raw = RawInit(FALSE, opt)
    /\ \E s \in EphStreams, iod \in Issues : tx = [stream |-> s, pos |-> 1, iod |-> iod]
    /\ ret = 0 /\ info = NoInfo /\ hist = 0 /\ sent = <<>>
    /\ GenIdle

DeliverEph ==
    /\ hist < MaxEphFrames
    /\ \E f \in {EphFrame(tx.stream, EphCycle(tx.stream)[tx.pos], tx.iod)} :
          \E o \in {feed([raw |-> raw, ret |-> 0, info |-> NoInfo], f, 1, Len(f), 0)} :
             /\ raw' = o.raw /\ ret' = o.ret /\ info' = o.info
    /\ IF tx.pos = Len(EphCycle(tx.stream))
       THEN \E iod \in Issues : tx' = [tx EXCEPT !.pos = 1, !.iod = iod]
       ELSE tx' = [tx EXCEPT !.pos = tx.pos + 1]
    /\ hist' = hist + 1
    /\ UNCHANGED <<sent, gmsg, gbuff, gn, gpos, gidle>>

NextEph == DeliverEph

SpecEph == InitEph /\ [][NextEph]_vars

\* the step changes nav.eph, nav.geph or ephsat
EphChanged ==
    raw'.nav.eph # raw.nav.eph \/ raw'.nav.geph # raw.nav.geph \/ raw'.ephsat # raw.ephsat
\* after the step ephsat is the sender's satellite and the entry stored for
\* it carries the issue of data being sent
EphStored ==
    /\ raw'.ephsat = tx.stream.sat
    /\ IF tx.stream.sys = "GLO"
       THEN /\ GephAt(raw'.nav, tx.stream.sv).sat = tx.stream.sat
            /\ GephAt(raw'.nav, tx.stream.sv).iode = tx.iod
       ELSE /\ EphAt(raw'.nav, tx.stream.sat).sat = tx.stream.sat
            /\ EphAt(raw'.nav, tx.stream.sat).iode = tx.iod

\* C36 as stated: a navigation frame changes nav.eph, nav.geph or ephsat if
\* and only if it returns status 2; when it returns 2, ephsat equals the
\* satellite named in that frame and the stored ephemeris entry for that
\* satellite is the one just decoded.
C36_ChangedIffStatus2 ==
    [][(EphChanged <=> ret' = 2) /\ (ret' = 2 => EphStored)]_vars

\* C36: a navigation frame changes nav.eph, nav.geph or ephsat only if it
\* returns status 2, and without -EPHALL every frame that returns 2 changes
\* them; when it returns 2, ephsat equals the satellite named in that frame
\* and the stored ephemeris entry for that satellite is the one just decoded.
C36_ChangedOnlyWithStatus2 ==
    [][/\ EphChanged => ret' = 2
       /\ (ret' = 2 /\ ~raw.opt.ephall) => EphChanged
       /\ ret' = 2 => EphStored]_vars

\* subframe 3 of C10 completed its second ephemeris, under a new issue of
\* data, without -EPHALL
C36_Witness ==
    /\ tx.stream.sys = "CMP" /\ ~raw.opt.ephall /\ hist = 6 /\ ret = 2
    /\ raw.ephsat = 106 /\ EphAt(raw.nav, 106).iode = 9 /\ EphAt(raw.nav, 106).sat = 106

-----------------------------------------------------------------------------
(* Specification SpecWords: the I/NAV words of E11, types 0..6 under one
   issue of data, reach the receiver in any order and any number of times *)

WordTypes == 0..6

\* the frame of each word type
WordFrame == [k \in WordTypes |-> PartFrame(GalStream, k, 7)]

\* tx is what the sender has sent: all the word types 0..6 so far, those sent
\* after the most recent word 2, and whether word 2 followed by all the
\* others has ever been sent
InitWords ==
    /\ raw = RawInit(FALSE, Opt0)
    /\ tx = [all |-> {}, after |-> {}, done |-> FALSE]
    /\ ret = 0 /\ info = NoInfo /\ hist = <<>> /\ sent = <<>>
    /\ GenIdle

DeliverAnyWord ==
    /\ \E k \in WordTypes :
          \E f \in {WordFrame[k]} :
             \E o \in {feed([raw |-> raw, ret |-> 0, info |-> NoInfo], f, 1, Len(f), 0)} :
                /\ raw' = o.raw /\ ret' = o.ret /\ info' = o.info
                /\ \E all \in {tx.all \cup {k}},
                      after \in {IF k = 2 THEN {}
                                 ELSE IF 2 \in tx.all THEN tx.after \cup {k}
                                 ELSE tx.after} :
                      tx' = [all |-> all, after |-> after,
                             done |-> tx.done \/ after = {0, 1, 3, 4, 5, 6}]
    /\ UNCHANGED <<hist, sent, gmsg, gbuff, gn, gpos, gidle>>

NextWords == DeliverAnyWord

SpecWords == InitWords /\ [][NextWords]_vars

\* the presence mask of E11
WordMask == At(raw.subfrm, GalStream.sat, 112)

\* C37: Galileo I/NAV ephemeris reconstruction for a satellite is attempted
\* only when the presence mask equals 0x7F, and because storing word type 2
\* first clears the mask, this requires that word types 0, 1, 3, 4, 5 and 6
\* have all been received after the most recent word type 2: word types
\* received before that word 2 do not count.
C37_CompleteAfterWord2 ==
    /\ WordMask = 127 <=> (2 \in tx.all /\ tx.after = {0, 1, 3, 4, 5, 6})
    /\ ret = 2 => WordMask = 127
    /\ (raw.ephsat # 0 \/ raw.nav.eph # <<>>) => tx.done

\* all seven word types have been received, word 2 last: the mask holds
\* word 2 only and no ephemeris has been stored
C37_Witness ==
    /\ tx.all = 0..6 /\ tx.after = {} /\ ~tx.done
    /\ WordMask = 4 /\ raw.ephsat = 0 /\ raw.nav.eph = <<>>

-----------------------------------------------------------------------------
(* Specification SpecStuck: a byte stream without end.  While the framer
   searches for synchronisation the bytes are 0 and the two sync
   characters, a header names class CFG and a length of 8, 256, 257, 3848,
   4096 or 4097 bytes, and the bytes of a body are 0. *)

StuckBytes(nbyte) ==
    CASE nbyte = 0 -> {0, UBXSYNC1, UBXSYNC2}
      [] nbyte = 2 -> {UBXCFG}
      [] nbyte = 3 -> {0}
      [] nbyte = 4 -> {0, 248, 249}
      [] nbyte = 5 -> {0, 15}
      [] OTHER     -> {0}

\* hist counts the calls made since nbyte was last 0 and keeps the nbyte the
\* last call found
InitStuck ==
    /\ raw = RawInit(FALSE, Opt0)
    /\ hist = [run |-> 0, prev |-> 0]
    /\ ret = 0 /\ info = NoInfo /\ tx = <<>> /\ sent = <<>>
    /\ GenIdle

FeedByte ==
    /\ \E data \in StuckBytes(raw.nbyte) :
          \E o \in {input_ubx(raw, data, 0)} :
             /\ raw' = o.raw /\ ret' = o.ret /\ info' = o.info
             /\ hist' = [run |-> IF o.raw.nbyte = 0 THEN 0 ELSE hist.run + 1,
                         prev |-> raw.nbyte]
    /\ UNCHANGED <<tx, sent, gmsg, gbuff, gn, gpos, gidle>>

NextStuck == FeedByte

SpecStuck == InitStuck /\ [][NextStuck]_vars

\* C38: the framer cannot get stuck inside a frame: from every reachable
\* state of input_ubx, at most MAXRAWLEN-2 further bytes bring nbyte back to
\* 0 at least once (no more than MAXRAWLEN-2 calls in a row leave nbyte
\* other than 0, the first of them included), and nbyte returns to 0 either
\* with the frame delivered to the dispatcher or with an oversize-length
\* error.
C38_BackToZero ==
    /\ hist.run <= MAXRAWLEN - 2
    /\ raw.nbyte # 0 => hist.run = raw.nbyte - 1
    /\ (hist.prev # 0 /\ raw.nbyte = 0) =>
          \/ info.disp /\ hist.prev = raw.len - 1
          \/ ~info.disp /\ ret = -1 /\ hist.prev = 5 /\ raw.len > MAXRAWLEN

\* the last byte but one of a frame of MAXRAWLEN bytes has been fed
C38_Witness ==
    /\ hist.run = MAXRAWLEN - 2 /\ raw.nbyte = MAXRAWLEN - 1
    /\ raw.len = MAXRAWLEN

-----------------------------------------------------------------------------
(* Specification SpecPair: RXM-RAWX frames of version 1 with two blocks of
   one satellite whose signals share a slot: G05 on L2CL then L2CM, G05 on
   L2CM then L2CL, or E11 on E1C then E1B *)

MaxPairFrames == 2

\* IEEE-754 bytes of the double 2.0
Two8 == <<0, 0, 0, 0, 0, 0, 0, 64>>

\* gnssId, svId and the sigId of the earlier and of the later block
PairStreams ==
    { [gnssId |-> 0, svId |-> 5, sigs |-> <<3, 4>>],
      [gnssId |-> 0, svId |-> 5, sigs |-> <<4, 3>>],
      [gnssId |-> 2, svId |-> 11, sigs |-> <<0, 1>>] }

\* lock time and trkStat of a block: phase valid with the half cycle not
\* subtracted (7) or subtracted (15), or phase not valid (5)
PairKinds == {[lockt |-> l, tstat |-> s] : l \in {1000, 2000}, s \in {7, 15, 5}}

\* the earlier block carries the phase 1.0, the later one 2.0
PairMeas(s, a, b) ==
    << [Meas(a.lockt, a.tstat, 1, One8)
           EXCEPT !.gnssId = s.gnssId, !.svId = s.svId, !.sigId = s.sigs[1]],
       [Meas(b.lockt, b.tstat, 1, Two8)
           EXCEPT !.gnssId = s.gnssId, !.svId = s.svId, !.sigId = s.sigs[2]] >>

PairSat(s) == MixSat([gnssId |-> s.gnssId, svId |-> s.svId])
PairSlot(s) == sig_idx(ubx_sys(s.gnssId), ubx_sig(ubx_sys(s.gnssId), s.sigs[2]))

\* tx is the satellite and the signals of all the frames, sent the two
\* blocks of the last frame and the lock time, half-cycle bit and slip flag
\* the receiver had for the slot before it, hist the number of frames
InitPair ==
    /\ raw = RawInit(FALSE, Opt0)
    /\ \E s \in PairStreams : tx = s
    /\ sent = [ms |-> <<>>, lockt |-> 0, halfc |-> 0, lockflag |-> 0]
    /\ hist = 0
    /\ ret = 0 /\ info = NoInfo
    /\ GenIdle

DeliverPair ==
    /\ hist < MaxPairFrames
    /\ \E a \in PairKinds, b \in PairKinds :
          \E ms \in {PairMeas(tx, a, b)} :
             \E f \in {RawxFrame(2200, 1, ms)} :
                \E o \in {feed([raw |-> raw, ret |-> 0, info |-> NoInfo], f, 1, Len(f), 0)} :
                   /\ raw' = o.raw /\ ret' = o.ret /\ info' = o.info
                   /\ sent' = [ms |-> ms,
                               lockt |-> At(raw.lockt, PairSat(tx), PairSlot(tx)),
                               halfc |-> At(raw.halfc, PairSat(tx), PairSlot(tx)),
                               lockflag |-> At(raw.lockflag, PairSat(tx), PairSlot(tx))]
    /\ hist' = hist + 1
    /\ UNCHANGED <<tx, gmsg, gbuff, gn, gpos, gidle>>

NextPair == DeliverPair

SpecPair == InitPair /\ [][NextPair]_vars

\* the phase of block m is valid
PairPhase(m) == Bit(m.trkStat, 1) = 1
\* the lock time of the later block is smaller than that of the earlier
\* block, or their half-cycle bits differ
PairSlip ==
    \/ sent.ms[2].lockt < sent.ms[1].lockt
    \/ Bit(sent.ms[2].trkStat, 3) # Bit(sent.ms[1].trkStat, 3)

\* C40: the slip state of RXM-RAWX is keyed by satellite and slot, not by
\* signal: when two blocks of one frame belong to the same satellite and map
\* to the same slot, the slot holds the values of the later block, and the
\* later block's lock time and half-cycle bit are compared with those the
\* earlier block has just stored, so a slip is declared on it whenever its
\* lock time is smaller or its half-cycle bit differs (in the LLI of the slot
\* where the later block has a valid phase, in lockflag otherwise); where
\* both blocks have a valid phase the slot is flagged in no other case.
C40_SlotOfLaterBlock ==
    hist > 0 =>
        \E sat \in {PairSat(tx)}, f \in {PairSlot(tx)}, a \in {sent.ms[1]}, b \in {sent.ms[2]} :
           \E row \in {RowAt(raw.obs.data, 0)} :
              /\ ret = 1 /\ raw.obs.n = 1 /\ row.sat = sat
              /\ row.code[f] = ubx_sig(ubx_sys(b.gnssId), b.sigId)
              /\ row.L[f] = (IF PairPhase(b) THEN Two8 ELSE Zero8)
              /\ \A g \in (1..NSLOT) \ {f} : row.code[g] = "NONE" /\ row.L[g] = Zero8
              /\ At(raw.lockt, sat, f) = b.lockt
              /\ At(raw.halfc, sat, f) = Bit(b.trkStat, 3)
              /\ PairSlip => IF PairPhase(b) THEN row.LLI[f] % 2 = 1
                             ELSE At(raw.lockflag, sat, f) # 0
              /\ (PairPhase(a) /\ PairPhase(b)) => (row.LLI[f] % 2 = 1 <=> PairSlip)

\* the slot had the lock time 1000; the L2CL block of G05 comes with 2000
\* and the L2CM block after it with 1000 again: slot 2 holds L2CM, flagged
C40_Witness ==
    /\ hist = 2 /\ tx.sigs = <<3, 4>> /\ sent.lockt = 1000 /\ sent.halfc = 0
    /\ sent.lockflag = 0
    /\ sent.ms[1].lockt = 2000 /\ sent.ms[1].trkStat = 7
    /\ sent.ms[2].lockt = 1000 /\ sent.ms[2].trkStat = 7
    /\ RowAt(raw.obs.data, 0).code[2] = "L2S"
    /\ RowAt(raw.obs.data, 0).L[2] = Two8
    /\ RowAt(raw.obs.data, 0).LLI[2] = 1

=============================================================================
